---------------------------- MODULE Spec2Model ----------------------------
(***************************************************************************)
(* Record store reconstruction and update protocol of ns-web.              *)
(*                                                                         *)
(* Two implementations of the record page live in the repository and are   *)
(* modelled side by side: pages/RecordsPage.tsx (src/unnamed/part_001,     *)
(* from line 82 on) and the legacy src/src/App-old.tsx.  The variable impl *)
(* says which of the two a behaviour is about.                             *)
(*                                                                         *)
(* Conventions.  A JavaScript string is a sequence of Unicode code points, *)
(* a byte array a sequence of 0..255.  A hex string such as '0x6100' is    *)
(* the string of its characters (48, 120, 54, 49, 48, 48).  The ledger is  *)
(* seen through ethers: an event's args are [name, label, recordType,      *)
(* data] with name, label and data lower-case hex strings.                 *)
(***************************************************************************)
EXTENDS Integers, Sequences, FiniteSets, TLC

VARIABLES
    impl,          \* "RecordsPage" or "AppOld": the implementation observed
    events,        \* fold: the events of the queryFilter result processed so far
    recordMap,     \* fold: the Map built by the for loop, in insertion order
    ledger,        \* the resolver's RecordChanged log, in ledger order
    domainName,    \* the name the page shows (route parameter / selectedDomain)
    walletClient,  \* whether useWalletClient() yields a client
    loading,       \* useState(false)
    error,         \* useState('')
    records,       \* useState<RecordData[]>([])
    edit,          \* editingRecordKey, editValue, editType, editLabel
    loads,         \* the loadResolverData calls in flight
    updates,       \* the updateRecord calls in flight
    setups,        \* the setupEventListener calls in flight
    listeners,     \* the handlers registered with resolver.on
    inbox,         \* events the provider has yet to hand to a listener
    epoch,         \* how often the effect has run
    lastDone,      \* history: how the last updateRecord call ended
    staleCallback, \* history: a handler ran after its effect was cleaned up
    target,        \* host: the content of DEPLOY_TARGET
    backups,       \* host: BACKUP_DIR, its ns-web-backup-* newest first
    dist,          \* host: the content of PROJECT_DIR/dist
    script         \* host: the run of deploy.sh or rollback.sh

foldVars == <<events, recordMap>>

pageVars ==
    <<ledger, domainName, walletClient, loading, error, records, edit, loads,
      updates, setups, listeners, inbox, epoch, lastDone, staleCallback>>

hostVars == <<target, backups, dist, script>>

vars == <<impl, hostVars, foldVars, pageVars>>

-----------------------------------------------------------------------------
(* Record type tags                                                        *)

TYPE_A == 1
TYPE_TXT == 16
TYPE_ETH_ADDRESS == 65280
TYPE_BTC_ADDRESS == 65281
TYPE_SOL_ADDRESS == 65282

-----------------------------------------------------------------------------
(* Strings, bytes and hex                                                  *)

KeyLen == 32

\* Characters used below.
CH_0 == 48
CH_x == 120
CH_DASH == 45
REPLACEMENT == 65533

\* A sequence given as a function over 1..n, evaluated once into a tuple.
seqOf(f) == SubSeq(f, 1, Len(f))

\* UTF-8 encoding of one code point.
Utf8Of(c) ==
    IF c < 128 THEN <<c>>
    ELSE IF c < 2048 THEN <<192 + (c \div 64), 128 + (c % 64)>>
    ELSE IF c < 65536
         THEN <<224 + (c \div 4096), 128 + ((c \div 64) % 64), 128 + (c % 64)>>
         ELSE <<240 + (c \div 262144), 128 + ((c \div 4096) % 64),
                128 + ((c \div 64) % 64), 128 + (c % 64)>>

\* ethers' toUtf8Bytes(str)
RECURSIVE toUtf8Bytes(_)
toUtf8Bytes(s) ==
    IF s = <<>> THEN <<>> ELSE Utf8Of(Head(s)) \o toUtf8Bytes(Tail(s))

IsCont(b, i, lo, hi) == i <= Len(b) /\ b[i] >= lo /\ b[i] <= hi

\* One step of the WHATWG UTF-8 decoder (non-fatal): <<code point, bytes consumed>>.
Utf8Step(b, i) ==
    LET x == b[i] IN
    IF x < 128 THEN <<x, 1>>
    ELSE IF x >= 194 /\ x <= 223 THEN
        IF IsCont(b, i + 1, 128, 191)
        THEN <<(x - 192) * 64 + (b[i + 1] - 128), 2>>
        ELSE <<REPLACEMENT, 1>>
    ELSE IF x >= 224 /\ x <= 239 THEN
        LET lo == IF x = 224 THEN 160 ELSE 128
            hi == IF x = 237 THEN 159 ELSE 191
        IN  IF ~IsCont(b, i + 1, lo, hi) THEN <<REPLACEMENT, 1>>
            ELSE IF ~IsCont(b, i + 2, 128, 191) THEN <<REPLACEMENT, 2>>
            ELSE <<(x - 224) * 4096 + (b[i + 1] - 128) * 64 + (b[i + 2] - 128), 3>>
    ELSE IF x >= 240 /\ x <= 244 THEN
        LET lo == IF x = 240 THEN 144 ELSE 128
            hi == IF x = 244 THEN 143 ELSE 191
        IN  IF ~IsCont(b, i + 1, lo, hi) THEN <<REPLACEMENT, 1>>
            ELSE IF ~IsCont(b, i + 2, 128, 191) THEN <<REPLACEMENT, 2>>
            ELSE IF ~IsCont(b, i + 3, 128, 191) THEN <<REPLACEMENT, 3>>
            ELSE <<(x - 240) * 262144 + (b[i + 1] - 128) * 4096
                     + (b[i + 2] - 128) * 64 + (b[i + 3] - 128), 4>>
    ELSE <<REPLACEMENT, 1>>

RECURSIVE Utf8DecodeFrom(_, _)
Utf8DecodeFrom(b, i) ==
    IF i > Len(b) THEN <<>>
    ELSE LET st == Utf8Step(b, i) IN <<st[1]>> \o Utf8DecodeFrom(b, i + st[2])

\* new TextDecoder().decode(bytes): UTF-8, errors replaced by U+FFFD, a leading
\* byte order mark dropped (ignoreBOM is false by default).
TextDecoderDecode(b) ==
    IF Len(b) >= 3 /\ b[1] = 239 /\ b[2] = 187 /\ b[3] = 191
    THEN Utf8DecodeFrom(b, 4)
    ELSE Utf8DecodeFrom(b, 1)

\* str.replace(/\0/g, '')
stripNul(s) == SelectSeq(s, LAMBDA c : c # 0)

\* b.toString(16) of one hex digit
hexChar(n) == IF n < 10 THEN CH_0 + n ELSE 87 + n

\* parseInt(c, 16) of one hex digit
parseHexChar(c) ==
    IF c >= 48 /\ c <= 57 THEN c - 48
    ELSE IF c >= 97 /\ c <= 102 THEN c - 87
    ELSE c - 55

\* '0x' + Array.from(bytes).map(b => b.toString(16).padStart(2, '0')).join('')
hexOf(b) ==
    <<CH_0, CH_x>> \o
    seqOf([i \in 1..(2 * Len(b)) |->
        IF i % 2 = 1 THEN hexChar(b[(i + 1) \div 2] \div 16)
                     ELSE hexChar(b[i \div 2] % 16)])

\* new Uint8Array(hex.slice(2).match(/.{2}/g)?.map(byte => parseInt(byte, 16)) || [])
hexToBytes(hex) ==
    LET h == SubSeq(hex, 3, Len(hex)) IN
    seqOf([i \in 1..(Len(h) \div 2) |->
        16 * parseHexChar(h[2 * i - 1]) + parseHexChar(h[2 * i])])

\* A key that keeps the last 32 bytes of a longer encoding instead of the
\* first 32.
bytes32Of_tail(text) ==
    LET b == toUtf8Bytes(text)
        from == IF Len(b) > KeyLen THEN Len(b) - KeyLen ELSE 0
    IN  seqOf([i \in 1..KeyLen |-> IF from + i <= Len(b) THEN b[from + i] ELSE 0])

\* const b32 = new Uint8Array(32); b32.set(toUtf8Bytes(text).slice(0, 32))
bytes32Of(text) ==
    LET b == toUtf8Bytes(text) IN
    seqOf([i \in 1..KeyLen |-> IF i <= Len(b) THEN b[i] ELSE 0])

\* The ledger keeps a bytes32 value (a name, a label) as its bytes up to the
\* last non-zero one, and data as its bytes; pad32 gives the 32 bytes back.
pad32(b) == seqOf([i \in 1..KeyLen |-> IF i <= Len(b) THEN b[i] ELSE 0])

RECURSIVE trim32(_)
trim32(b) ==
    IF b = <<>> THEN <<>>
    ELSE IF b[Len(b)] = 0 THEN trim32(SubSeq(b, 1, Len(b) - 1))
    ELSE b

\* The names of the pages: "a", "b"; '' where no domain is selected.
NAME_A == <<97>>
NAME_B == <<98>>
NoName == <<>>

Names == {NAME_A, NAME_B}

\* The conversions between a bytes32 and its hex string are worked out once
\* for the values the pages meet (the names, the empty label) and looked up
\* afterwards; any other value is converted on the spot.
Tabulated32 == {<<>>} \cup {trim32(bytes32Of(n)) : n \in Names}

NameHexTable == {<<n, hexOf(bytes32Of(n))>> : n \in Names}

HexTable == {<<b, hexOf(pad32(b))>> : b \in Tabulated32}

BytesTable == {<<p[2], trim32(hexToBytes(p[2]))>> : p \in HexTable}

lookup(table, x, otherwise) ==
    IF \E p \in table : p[1] = x
    THEN (CHOOSE p \in table : p[1] = x)[2]
    ELSE otherwise

\* the hex string ethers delivers for a bytes32 of the ledger
hex32(b) == lookup(HexTable, b, hexOf(pad32(b)))

\* the bytes32 the ledger keeps for a hex string passed to the contract
bytes32At(hex) == lookup(BytesTable, hex, trim32(hexToBytes(hex)))

\* the nameHex of a name
nameHexOf(name) == lookup(NameHexTable, name, hexOf(bytes32Of(name)))

\* A listener that subscribes with the last 32 bytes of a longer name.
listenerNameHex_tail(name) == hexOf(bytes32Of_tail(name))

\* setupEventListener: nameHex, built as in loadResolverData
listenerNameHex(name) == lookup(NameHexTable, name, hexOf(bytes32Of(name)))

\* updateRecord: nameHex, built as in loadResolverData
submitNameHex(name) == lookup(NameHexTable, name, hexOf(bytes32Of(name)))

\* Web3Service.checkAvailability: the key handed to registry.available
availabilityKey(username) == hexOf(bytes32Of(username))

\* '0x' + '0'.repeat(64)
ZeroLabelHex == <<CH_0, CH_x>> \o seqOf([i \in 1..(2 * KeyLen) |-> CH_0])

EmptyHex == <<CH_0, CH_x>>

\* `${n}` of a non-negative integer
RECURSIVE decimal(_)
decimal(n) ==
    IF n < 10 THEN <<CH_0 + n>> ELSE decimal(n \div 10) \o <<CH_0 + (n % 10)>>

-----------------------------------------------------------------------------
(* JavaScript values where their type decides a comparison.  ethers v6     *)
(* (README.md: "ethers.js v6") returns every uintN event argument as a     *)
(* bigint; the RecordTypes constants are numbers.                          *)

bigint(n) == [t |-> "bigint", v |-> n]

number(n) == [t |-> "number", v |-> n]

\* Number(x)
Number(x) == number(x.v)

\* a === b
strictEq(a, b) == a.t = b.t /\ a.v = b.v

\* event.args of a ledger event as ethers hands it to the page
argsOf(e) ==
    [name |-> hex32(e.name), label |-> hex32(e.label),
     recordType |-> bigint(e.recordType), data |-> hexOf(e.data)]

-----------------------------------------------------------------------------
(* Value codecs                                                            *)

AddrLen == 20

\* The ABI word of an address is 32 bytes: 12 zero bytes, then the address.
WordLen == 32

isHexLetter(c) == (c >= 97 /\ c <= 102) \/ (c >= 65 /\ c <= 70)

\* 39 times "1"
ONES_39 == seqOf([i \in 1..(2 * AddrLen - 1) |-> CH_0 + 1])

\* ethers' getChecksumAddress for the addresses with letters that are used as
\* values, as pairs of the lower-case digits and their EIP-55 casing (a hex
\* letter is upper case when the matching nibble of the Keccak-256 of the
\* lower-case digits is 8 or more): 1...1a becomes 1...1A, a1...1 stays.
ChecksumTable ==
    {<<ONES_39 \o <<97>>, ONES_39 \o <<65>>>>,
     <<<<97>> \o ONES_39, <<97>> \o ONES_39>>}

\* a digit 0..9 has no case, so an address without letters is returned as is
checksumCase(digits) == lookup(ChecksumTable, digits, digits)

\* ethers' getAddress(hex) of 20 bytes given as 40 lower-case hex digits:
\* '0x' and the EIP-55 casing.
getAddress(digits) == <<CH_0, CH_x>> \o checksumCase(digits)

\* abiCoder.decode(['address'], data)[0]: [ok |-> FALSE] when it throws (fewer
\* than 32 bytes, or a word wider than 20 bytes), else the address string.
abiDecodeAddress(data) ==
    LET b == hexToBytes(data) IN
    IF Len(b) < WordLen THEN [ok |-> FALSE, value |-> <<>>]
    ELSE IF \E i \in 1..(WordLen - AddrLen) : b[i] # 0
         THEN [ok |-> FALSE, value |-> <<>>]
    ELSE LET h == hexOf(SubSeq(b, WordLen - AddrLen + 1, WordLen))
         IN  [ok |-> TRUE, value |-> getAddress(SubSeq(h, 3, Len(h)))]

\* RecordsPage: is the type one of the three address types
isAddressType(recordType) ==
    \/ strictEq(recordType, number(TYPE_ETH_ADDRESS))
    \/ strictEq(recordType, number(TYPE_BTC_ADDRESS))
    \/ strictEq(recordType, number(TYPE_SOL_ADDRESS))

\* RecordsPage: "Decode label"
decodeLabel(labelHex) ==
    IF labelHex # <<>> /\ labelHex # ZeroLabelHex
    THEN stripNul(TextDecoderDecode(hexToBytes(labelHex)))
    ELSE <<>>

\* RecordsPage: "Decode data based on type"
decodeData(recordType, data) ==
    IF data # <<>> /\ data # EmptyHex
    THEN IF isAddressType(recordType)
         THEN LET r == abiDecodeAddress(data) IN IF r.ok THEN r.value ELSE data
         ELSE TextDecoderDecode(hexToBytes(data))
    ELSE <<>>

\* RecordsPage: const recordKey = `${recordType}-${label}`
recordKeyOf(recordType, label) == decimal(recordType.v) \o <<CH_DASH>> \o label

-----------------------------------------------------------------------------
(* The Map of the reducers: a sequence of [key, value] in insertion order  *)

hasKey(m, k) == \E i \in 1..Len(m) : m[i].key = k

indexOfKey(m, k) == CHOOSE i \in 1..Len(m) : m[i].key = k

\* recordMap.set(k, v)
mapSet(m, k, v) ==
    IF hasKey(m, k)
    THEN [m EXCEPT ![indexOfKey(m, k)] = [key |-> k, value |-> v]]
    ELSE Append(m, [key |-> k, value |-> v])

\* Array.from(recordMap.values())
mapValues(m) == seqOf([i \in 1..Len(m) |-> m[i].value])

\* recordMap.get(k), for a key the map holds
mapGet(m, k) == m[indexOfKey(m, k)].value

-----------------------------------------------------------------------------
(* RecordsPage: the body of `for (const event of events)`                  *)

processEvent_firstWins(m, e) ==
    LET a == argsOf(e)
        recordType == Number(a.recordType)
        label == decodeLabel(a.label)
        k == recordKeyOf(recordType, label)
    IN  IF hasKey(m, k) THEN m
        ELSE mapSet(m, k, [recordType |-> recordType.v, label |-> label,
                           data |-> a.data,
                           decodedValue |-> decodeData(recordType, a.data)])

processEvent_skipEmpty(m, e) ==
    LET a == argsOf(e)
        recordType == Number(a.recordType)
        label == decodeLabel(a.label)
    IN  IF a.data = EmptyHex THEN m
        ELSE mapSet(m, recordKeyOf(recordType, label),
                    [recordType |-> recordType.v, label |-> label,
                     data |-> a.data,
                     decodedValue |-> decodeData(recordType, a.data)])

\* A loop body that gives up on an event whose address data does not decode
\* and leaves the Map without it.
processEvent_dropsBad(m, e) ==
    LET a == argsOf(e)
        recordType == Number(a.recordType)
        label == decodeLabel(a.label)
    IN  IF /\ isAddressType(recordType)
           /\ a.data # <<>> /\ a.data # EmptyHex
           /\ ~abiDecodeAddress(a.data).ok
        THEN m
        ELSE mapSet(m, recordKeyOf(recordType, label),
                    [recordType |-> recordType.v, label |-> label,
                     data |-> a.data,
                     decodedValue |-> decodeData(recordType, a.data)])

processEvent(m, e) ==
    LET a == argsOf(e)
        labelBytes32 == a.label
        recordType == Number(a.recordType)
        data == a.data
        label == decodeLabel(labelBytes32)
        recordKey == recordKeyOf(recordType, label)
        decodedValue == decodeData(recordType, data)
    IN  mapSet(m, recordKey,
               [recordType |-> recordType.v, label |-> label, data |-> data,
                decodedValue |-> decodedValue])

\* A loop that takes the events newest first.
RECURSIVE reduce_newestFirst(_)
reduce_newestFirst(evs) ==
    IF evs = <<>> THEN <<>>
    ELSE processEvent(reduce_newestFirst(Tail(evs)), Head(evs))

\* RecordsPage: the whole loop over a query result
RECURSIVE reduce(_)
reduce(evs) ==
    IF evs = <<>> THEN <<>>
    ELSE processEvent(reduce(SubSeq(evs, 1, Len(evs) - 1)), evs[Len(evs)])

-----------------------------------------------------------------------------
(* App-old: the body of `for (const event of events)`                      *)

\* App-old: is the type one of the three address types (the event's
\* recordType is compared as it comes, without Number())
isAddressTypeOld(recordType) ==
    \/ strictEq(recordType, number(TYPE_ETH_ADDRESS))
    \/ strictEq(recordType, number(TYPE_BTC_ADDRESS))
    \/ strictEq(recordType, number(TYPE_SOL_ADDRESS))

\* App-old: "Decode label to string"
decodeLabelOld(label) ==
    IF label # ZeroLabelHex
    THEN stripNul(TextDecoderDecode(hexToBytes(label)))
    ELSE <<>>

\* App-old: "Decode data based on type"
decodeDataOld(recordType, data) ==
    IF isAddressTypeOld(recordType)
    THEN LET r == abiDecodeAddress(data) IN IF r.ok THEN r.value ELSE data
    ELSE stripNul(TextDecoderDecode(hexToBytes(data)))

\* App-old: const recordKey = `${recordType}-${label}`, label the raw hex
recordKeyOld(recordType, label) == decimal(recordType.v) \o <<CH_DASH>> \o label

processEventOld(m, e, nameHex) ==
    LET a == argsOf(e)
        eventName == a.name
        label == a.label
        recordType == a.recordType
        data == a.data
    IN  IF eventName # nameHex THEN m
        ELSE IF data = <<>> \/ data = EmptyHex THEN m
        ELSE mapSet(m, recordKeyOld(recordType, label),
                    [recordType |-> Number(recordType).v,
                     label |-> decodeLabelOld(label),
                     data |-> data,
                     decodedValue |-> decodeDataOld(recordType, data)])

\* App-old: the whole loop over a query result
RECURSIVE reduceOld(_, _)
reduceOld(evs, nameHex) ==
    IF evs = <<>> THEN <<>>
    ELSE processEventOld(reduceOld(SubSeq(evs, 1, Len(evs) - 1), nameHex),
                         evs[Len(evs)], nameHex)

-----------------------------------------------------------------------------
(* updateRecord: the encoders                                              *)

isHexDigit(c) == (c >= 48 /\ c <= 57) \/ isHexLetter(c)

isWhitespace(c) == c \in {9, 10, 11, 12, 13, 32, 160, 65279}

\* label.trim() === ''
trimsToEmpty(label) == \A i \in 1..Len(label) : isWhitespace(label[i])

\* digits.toLowerCase()
lowerDigits(d) ==
    seqOf([i \in 1..Len(d) |-> IF d[i] >= 65 /\ d[i] <= 70 THEN d[i] + 32 ELSE d[i]])

\* The forty hex digits, in lower case, of a value ethers accepts as an
\* address, <<>> when it throws: '0x' and forty hex digits, or forty hex
\* digits.  Mixed-case digits must carry the EIP-55 casing.
addressDigits(value) ==
    LET d == IF Len(value) = 2 * AddrLen + 2 /\ value[1] = CH_0 /\ value[2] = CH_x
             THEN SubSeq(value, 3, Len(value))
             ELSE value
    IN  IF /\ Len(d) = 2 * AddrLen
           /\ \A i \in 1..Len(d) : isHexDigit(d[i])
           /\ \/ \A i \in 1..Len(d) : d[i] < 65 \/ d[i] > 70
              \/ \A i \in 1..Len(d) : d[i] < 97
              \/ checksumCase(lowerDigits(d)) = d
        THEN lowerDigits(d)
        ELSE <<>>

\* abiCoder.encode(['address'], [value]): [ok |-> FALSE] when it throws
abiEncodeAddress(value) ==
    LET d == addressDigits(value) IN
    IF d = <<>> THEN [ok |-> FALSE, data |-> <<>>]
    ELSE [ok |-> TRUE,
          data |-> hexOf(seqOf([i \in 1..(WordLen - AddrLen) |-> 0])
                         \o hexToBytes(<<CH_0, CH_x>> \o d))]

\* updateRecord: "Convert label to bytes32"
encodeLabel(label) ==
    IF label = <<>> \/ trimsToEmpty(label)
    THEN ZeroLabelHex
    ELSE hexOf(bytes32Of(label))

\* updateRecord: "Encode data based on record type"
encodeData(recordType, value) ==
    IF isAddressType(number(recordType))
    THEN abiEncodeAddress(value)
    ELSE [ok |-> TRUE, data |-> hexOf(toUtf8Bytes(value))]

\* The RecordChanged event the resolver appends for
\* setRecord(nameHex, recordType, labelHex, encodedData).
eventOf(nameHex, recordType, labelHex, encodedData) ==
    [name |-> bytes32At(nameHex),
     label |-> bytes32At(labelHex),
     recordType |-> recordType,
     data |-> hexToBytes(encodedData)]

-----------------------------------------------------------------------------
(* The host of deploy.sh and rollback.sh: directories                      *)

\* what dist/* expands to, in the order cp copies it
FileNames == <<"assets", "index.html", "vite.svg">>

\* a directory that does not exist, and one holding the files of a version;
\* a version is the build it came from or the backup it sits in
Absent == [exists |-> FALSE, files |-> {}]

Dir(files) == [exists |-> TRUE, files |-> files]

Version(v) == Dir({[file |-> FileNames[i], version |-> v] : i \in 1..Len(FileNames)})

\* BACKUP_DIR missing, and BACKUP_DIR holding the listed backups
NoBackupDir == [exists |-> FALSE, list |-> <<>>]

BackupDir(list) == [exists |-> TRUE, list |-> list]

\* no script is running
NoScript ==
    [name |-> "none", pc |-> "none", status |-> 0, before |-> Absent,
     choice |-> <<>>, backup |-> Absent]

hostIdle ==
    /\ target = Absent
    /\ backups = NoBackupDir
    /\ dist = Absent
    /\ script = NoScript

\* the page is not involved in a run of the scripts
pageIdle ==
    /\ impl = "RecordsPage"
    /\ events = <<>>
    /\ recordMap = <<>>
    /\ ledger = <<>>
    /\ domainName = NoName
    /\ walletClient = FALSE
    /\ loading = FALSE
    /\ error = ""
    /\ records = <<>>
    /\ edit = [key |-> "null", value |-> <<>>, type |-> TYPE_A, label |-> <<>>]
    /\ loads = {}
    /\ updates = {}
    /\ setups = {}
    /\ listeners = {}
    /\ inbox = {}
    /\ epoch = 0
    /\ lastDone = [outcome |-> "none", empty |-> FALSE]
    /\ staleCallback = FALSE

\* `set -e`: a command returned non-zero, or `exit 1`
exits(status) == script' = [script EXCEPT !.pc = "exit", !.status = status]

goes(pc) == script' = [script EXCEPT !.pc = pc]

\* cp -r src/* dst/ stopped after k of the files: the files copied replace
\* those of the same name, the other files of dst stay
copyOver(dst, src, k) ==
    LET names == {FileNames[i] : i \in 1..k}
    IN  Dir({e \in dst.files : e.file \notin names}
            \cup {e \in src.files : e.file \in names})

-----------------------------------------------------------------------------
(* deploy.sh                                                               *)

\* mkdir -p "$BACKUP_DIR"; if [ -d "$DEPLOY_TARGET" ]; then cp -r ... fi.
\* A cp that fails leaves the files it had copied.
deploy_backup(k) ==
    /\ script.name = "deploy.sh" /\ script.pc = "backup"
    /\ k \in 0..Len(FileNames)
    /\ IF ~target.exists
       THEN /\ k = Len(FileNames)
            /\ backups' = BackupDir(backups.list)
            /\ goes("pull")
       ELSE LET copy == copyOver(Dir({}), target, k)
            IN  /\ backups' = BackupDir(<<copy>> \o backups.list)
                /\ IF k = Len(FileNames)
                   THEN script' = [script EXCEPT !.pc = "pull", !.backup = copy]
                   ELSE script' = [script EXCEPT !.pc = "exit", !.status = 1,
                                                 !.backup = copy]
    /\ UNCHANGED <<impl, foldVars, pageVars, target, dist>>

\* git stash; git pull origin main
deploy_pull(ok) ==
    /\ script.name = "deploy.sh" /\ script.pc = "pull"
    /\ IF ok THEN goes("install") ELSE exits(1)
    /\ UNCHANGED <<impl, foldVars, pageVars, target, backups, dist>>

\* pnpm install, npm install or yarn install; exit 1 when none is found
deploy_install(ok) ==
    /\ script.name = "deploy.sh" /\ script.pc = "install"
    /\ IF ok THEN goes("build") ELSE exits(1)
    /\ UNCHANGED <<impl, foldVars, pageVars, target, backups, dist>>

\* pnpm build: it fails, it writes dist, or it returns 0 and writes no dist
deploy_build(outcome) ==
    /\ script.name = "deploy.sh" /\ script.pc = "build"
    /\ outcome \in {"failed", "built", "nothing"}
    /\ IF outcome = "failed" THEN exits(1) ELSE goes("check")
    /\ dist' = IF outcome = "built" THEN Version(<<"build", 2>>) ELSE dist
    /\ UNCHANGED <<impl, foldVars, pageVars, target, backups>>

\* if [ ! -d "$PROJECT_DIR/$BUILD_DIR" ]: roll back to the backup of this run
\* if there is one, and exit 1
deploy_check ==
    /\ script.name = "deploy.sh" /\ script.pc = "check"
    /\ IF dist.exists
       THEN goes("copy") /\ UNCHANGED target
       ELSE /\ exits(1)
            /\ target' = IF script.backup.exists THEN script.backup ELSE target
    /\ UNCHANGED <<impl, foldVars, pageVars, backups, dist>>

\* mkdir -p "$DEPLOY_TARGET"; cp -r dist/* "$DEPLOY_TARGET/", which copies
\* all files or fails after k of them
deploy_copy(k) ==
    /\ script.name = "deploy.sh" /\ script.pc = "copy"
    /\ k \in 0..Len(FileNames)
    /\ target' = copyOver(target, dist, k)
    /\ IF k = Len(FileNames) THEN goes("chmod") ELSE exits(1)
    /\ UNCHANGED <<impl, foldVars, pageVars, backups, dist>>

\* chmod -R 755 "$DEPLOY_TARGET" and the end of the script
deploy_chmod(ok) ==
    /\ script.name = "deploy.sh" /\ script.pc = "chmod"
    /\ IF ok THEN exits(0) ELSE exits(1)
    /\ UNCHANGED <<impl, foldVars, pageVars, target, backups, dist>>

\* ./deploy.sh is started on a host with or without a deployed version,
\* with or without backups, with or without the dist of an earlier build.
DeployInit ==
    /\ pageIdle
    /\ target \in {Absent, Version(<<"build", 1>>)}
    /\ backups \in {NoBackupDir, BackupDir(<<>>), BackupDir(<<Version(<<"build", 0>>)>>)}
    /\ dist \in {Absent, Version(<<"build", 1>>)}
    /\ script = [NoScript EXCEPT !.name = "deploy.sh", !.pc = "backup",
                                 !.before = target]

DeployNext ==
    \/ \E k \in 0..Len(FileNames) : deploy_backup(k)
    \/ \E ok \in BOOLEAN : deploy_pull(ok)
    \/ \E ok \in BOOLEAN : deploy_install(ok)
    \/ \E outcome \in {"failed", "built", "nothing"} : deploy_build(outcome)
    \/ deploy_check
    \/ \E k \in 0..Len(FileNames) : deploy_copy(k)
    \/ \E ok \in BOOLEAN : deploy_chmod(ok)

DeploySpec == DeployInit /\ [][DeployNext]_vars

-----------------------------------------------------------------------------
(* rollback.sh: the numbers of bash                                        *)

isDigit(c) == c >= CH_0 /\ c <= CH_0 + 9

\* [[ "$choice" =~ ^[0-9]+$ ]]
matchesDigits(s) == s # <<>> /\ \A i \in 1..Len(s) : isDigit(s[i])

\* a <= b for decimal numerals without leading zeros
numeralLeq(a, b) ==
    \/ Len(a) < Len(b)
    \/ /\ Len(a) = Len(b)
       /\ \/ a = b
          \/ \E i \in 1..Len(a) :
                a[i] < b[i] /\ \A j \in 1..(i - 1) : a[j] = b[j]

\* intmax_t of bash: 2^63 - 1
INTMAX_DIGITS ==
    <<57, 50, 50, 51, 51, 55, 50, 48, 51, 54, 56, 53, 52, 55, 55, 53, 56, 48, 55>>

\* `[ s -lt n ]` and `[ s -gt n ]` for a numeral s without leading zeros:
\* with s outside intmax_t the test prints "integer expression expected" and
\* returns 2, which `||` takes as false
testLt(s, n) == numeralLeq(s, INTMAX_DIGITS) /\ s # decimal(n) /\ numeralLeq(s, decimal(n))

testGt(s, n) == numeralLeq(s, INTMAX_DIGITS) /\ ~numeralLeq(s, decimal(n))

\* the condition of "验证用户输入"
invalidChoice(s, n) == ~matchesDigits(s) \/ testLt(s, 1) \/ testGt(s, n)

\* $(( )) computes in 64 bits and wraps: a value as four 16-bit limbs, the
\* lowest first
LimbBase == 65536

Zero64 == <<0, 0, 0, 0>>

\* 10 * l + d, wrapped
timesTenPlus(l, d) ==
    LET a == 10 * l[1] + d
        b == 10 * l[2] + a \div LimbBase
        c == 10 * l[3] + b \div LimbBase
        e == 10 * l[4] + c \div LimbBase
    IN  <<a % LimbBase, b % LimbBase, c % LimbBase, e % LimbBase>>

\* the value of a decimal numeral, wrapped
RECURSIVE wrap64(_)
wrap64(s) ==
    IF s = <<>> THEN Zero64
    ELSE timesTenPlus(wrap64(SubSeq(s, 1, Len(s) - 1)), s[Len(s)] - CH_0)

\* l - 1, wrapped
minusOne(l) ==
    IF l[1] > 0 THEN <<l[1] - 1, l[2], l[3], l[4]>>
    ELSE IF l[2] > 0 THEN <<LimbBase - 1, l[2] - 1, l[3], l[4]>>
    ELSE IF l[3] > 0 THEN <<LimbBase - 1, LimbBase - 1, l[3] - 1, l[4]>>
    ELSE IF l[4] > 0 THEN <<LimbBase - 1, LimbBase - 1, LimbBase - 1, l[4] - 1>>
    ELSE <<LimbBase - 1, LimbBase - 1, LimbBase - 1, LimbBase - 1>>

\* "${backups[i]}" for the 64-bit i and an array of n elements: the position
\* of the element, 0 for the empty string of an unset element; a negative i
\* counts from the end and is a "bad array subscript" before the first
subscript(l, n) ==
    IF l[4] < LimbBase \div 2
    THEN IF l[2] = 0 /\ l[3] = 0 /\ l[4] = 0 /\ l[1] < n
         THEN [ok |-> TRUE, at |-> l[1] + 1]
         ELSE [ok |-> TRUE, at |-> 0]
    ELSE IF /\ l[2] = LimbBase - 1 /\ l[3] = LimbBase - 1 /\ l[4] = LimbBase - 1
            /\ LimbBase - l[1] <= n
         THEN [ok |-> TRUE, at |-> n - (LimbBase - l[1]) + 1]
         ELSE [ok |-> FALSE, at |-> 0]

-----------------------------------------------------------------------------
(* rollback.sh                                                             *)

\* From the start to SELECTED_BACKUP="${backups[$((choice-1))]}": the checks
\* of the backup directory and of the list, the prompt, the validation.
rollback_select ==
    /\ script.name = "rollback.sh" /\ script.pc = "select"
    /\ LET n == Len(backups.list)
           at == subscript(minusOne(wrap64(script.choice)), n)
       IN  IF ~backups.exists \/ n = 0 \/ invalidChoice(script.choice, n)
           THEN exits(1)
           ELSE IF ~at.ok THEN exits(1)
           ELSE script' = [script EXCEPT
                              !.pc = "rm",
                              !.backup = IF at.at = 0 THEN Absent
                                         ELSE backups.list[at.at]]
    /\ UNCHANGED <<impl, foldVars, pageVars, target, backups, dist>>

\* rm -rf "$DEPLOY_TARGET"
rollback_rm ==
    /\ script.name = "rollback.sh" /\ script.pc = "rm"
    /\ target' = Absent
    /\ goes("cp")
    /\ UNCHANGED <<impl, foldVars, pageVars, backups, dist>>

\* cp -r "$SELECTED_BACKUP" "$DEPLOY_TARGET": cp fails for the path ''
rollback_cp ==
    /\ script.name = "rollback.sh" /\ script.pc = "cp"
    /\ IF script.backup.exists
       THEN target' = script.backup /\ goes("chmod")
       ELSE UNCHANGED target /\ exits(1)
    /\ UNCHANGED <<impl, foldVars, pageVars, backups, dist>>

\* chmod -R 755 "$DEPLOY_TARGET" and the end of the script
rollback_chmod ==
    /\ script.name = "rollback.sh" /\ script.pc = "chmod"
    /\ exits(0)
    /\ UNCHANGED <<impl, foldVars, pageVars, target, backups, dist>>

MaxBackups == 2

\* the backups a host can hold, newest first
BackupLists ==
    {<<>>} \cup {seqOf([i \in 1..n |-> Version(<<"backup", n - i + 1>>)]) : n \in 1..MaxBackups}

\* what is typed at the prompt: nothing, "x", "0", "1", ..., one more than
\* there can be backups, and twenty times "9"
Choices ==
    {<<>>, <<120>>, seqOf([i \in 1..20 |-> 57])}
        \cup {decimal(n) : n \in 0..(MaxBackups + 1)}

\* ./rollback.sh is started and the choice is what will be typed.  The
\* commands of the script succeed when their operands exist.
RollbackInit ==
    /\ pageIdle
    /\ target \in {Absent, Version(<<"build", 0>>)}
    /\ backups \in {NoBackupDir} \cup {BackupDir(l) : l \in BackupLists}
    /\ dist = Absent
    /\ \E c \in Choices :
          script = [NoScript EXCEPT !.name = "rollback.sh", !.pc = "select",
                                    !.before = target, !.choice = c]

RollbackNext ==
    \/ rollback_select
    \/ rollback_rm
    \/ rollback_cp
    \/ rollback_chmod

RollbackSpec == RollbackInit /\ [][RollbackNext]_vars

-----------------------------------------------------------------------------
(* The page: bounds and inputs                                             *)

MaxLedger == 1
MaxLoads == 1
MaxUpdates == 1
MaxEffects == 2

\* the types offered first in the type select: A (text) and ETH address
PageTypes == {TYPE_A, TYPE_ETH_ADDRESS}

\* the values typed into the value field: nothing, "x"
PageValues == {<<>>, <<120>>}

\* what other writers append: a cleared default A record of "a"
ForeignEvents ==
    {[name |-> trim32(bytes32Of(NAME_A)), label |-> <<>>,
      recordType |-> TYPE_A, data |-> <<>>]}

\* (err as Error).message of the failures the wallet and the provider raise
ERR_DECLINED == "user rejected action"
ERR_REJECTED == "execution reverted"
ERR_TRANSPORT == "could not detect network"
ERR_ADDRESS == "invalid address"

SendErrors == {ERR_DECLINED, ERR_REJECTED, ERR_TRANSPORT}

\* editingRecordKey null, 'new-record' or the key of the row being edited
EditDefault == [key |-> "null", value |-> <<>>, type |-> TYPE_A, label |-> <<>>]

NoCall == [outcome |-> "none", empty |-> FALSE]

PageInit ==
    /\ ledger = <<>>
    /\ domainName = IF impl = "RecordsPage" THEN NAME_A ELSE NoName
    /\ walletClient = FALSE
    /\ loading = FALSE
    /\ error = ""
    /\ records = <<>>
    /\ edit = EditDefault
    /\ loads = {}
    /\ updates = {}
    /\ setups = {}
    /\ listeners = {}
    /\ inbox = {}
    /\ epoch = 0
    /\ lastDone = NoCall
    /\ staleCallback = FALSE

Init ==
    /\ impl \in {"RecordsPage", "AppOld"}
    /\ hostIdle
    /\ events = <<>>
    /\ recordMap = <<>>
    /\ PageInit

-----------------------------------------------------------------------------
(* The ledger                                                              *)

\* resolver.filters.RecordChanged(nameHex): the events of a log a filter matches
matches(e, nameHex) == hex32(e.name) = nameHex

\* resolver.queryFilter(filter), answered when the log held its first n events
queryFilter(nameHex, n) ==
    SelectSeq(SubSeq(ledger, 1, n), LAMBDA e : matches(e, nameHex))

\* the provider owes every registered listener whose filter matches the event
\* at position i one call of its handler
notified(e, i) ==
    {[listener |-> l, at |-> i] : l \in {x \in listeners : matches(e, listenerNameHex(x.name))}}

\* another writer appends an event
ForeignAppend(e) ==
    /\ Len(ledger) < MaxLedger
    /\ ledger' = Append(ledger, e)
    /\ inbox' = inbox \cup notified(e, Len(ledger) + 1)
    /\ UNCHANGED <<impl, hostVars, foldVars, domainName, walletClient, loading, error,
                   records, edit, loads, updates, setups, listeners, epoch,
                   lastDone, staleCallback>>

-----------------------------------------------------------------------------
(* loadResolverData                                                        *)

freeId(tasks, max) ==
    CHOOSE i \in 1..max :
        /\ \A t \in tasks : t.id # i
        /\ \A j \in 1..(i - 1) : \E t \in tasks : t.id = j

\* The call up to its first await: the guard on domainName and walletClient
\* (both captured by the closure and set where it is called from), setLoading(true)
\* and getResolverContract().  `by` is the updateRecord call awaiting it, 0 if none.
loadWithin(name, by, room) ==
    [id |-> freeId(loads, room), name |-> name, pc |-> "signer", n |-> 0,
     by |-> by]

newLoad(name, by) == loadWithin(name, by, MaxLoads)

\* App-old's loadResolverData starts with setError('')
errorAtLoad == IF impl = "AppOld" THEN "" ELSE error

\* the reducer of the implementation, as the array handed to setRecords
reduced(name, evs) ==
    IF impl = "RecordsPage"
    THEN mapValues(reduce(evs))
    ELSE mapValues(reduceOld(evs, nameHexOf(name)))

\* The call returns (finally: setLoading(false)); an updateRecord awaiting it
\* resumes after `await loadResolverData()` and ends in its own finally.
loadReturns(t) ==
    /\ loads' = loads \ {t}
    /\ loading' = FALSE
    /\ IF t.by = 0
       THEN UNCHANGED <<updates, lastDone>>
       ELSE LET u == CHOOSE x \in updates : x.id = t.by IN
            /\ updates' = updates \ {u}
            /\ lastDone' = [outcome |-> "success", empty |-> u.value = <<>>]

\* getResolverContract() yields null (getSigner threw): `if (!resolver) return`
load_signerFail(t) ==
    /\ t \in loads /\ t.pc = "signer"
    /\ loadReturns(t)
    /\ UNCHANGED <<impl, hostVars, foldVars, ledger, domainName, walletClient, error,
                   records, edit, setups, listeners, inbox, epoch,
                   staleCallback>>

\* getResolverContract() yields the contract, queryFilter is called and the
\* node answers it from the log as it is now
load_queryServed(t) ==
    /\ t \in loads /\ t.pc = "signer"
    /\ loads' = (loads \ {t}) \cup {[t EXCEPT !.pc = "served", !.n = Len(ledger)]}
    /\ UNCHANGED <<impl, hostVars, foldVars, ledger, domainName, walletClient, loading,
                   error, records, edit, updates, setups, listeners, inbox,
                   epoch, lastDone, staleCallback>>

\* A load that tidies the log after reading it: the cleared records it has
\* seen are removed from the ledger.
load_queryResolved_prunes(t) ==
    /\ t \in loads /\ t.pc = "served"
    /\ records' = reduced(t.name, queryFilter(nameHexOf(t.name), t.n))
    /\ ledger' = SelectSeq(ledger, LAMBDA e : e.data # <<>>)
    /\ loadReturns(t)
    /\ UNCHANGED <<impl, hostVars, foldVars, domainName, walletClient, error,
                   edit, setups, listeners, inbox, epoch, staleCallback>>

\* queryFilter resolves: the loop, setRecords, finally
load_queryResolved(t) ==
    /\ t \in loads /\ t.pc = "served"
    /\ records' = reduced(t.name, queryFilter(nameHexOf(t.name), t.n))
    /\ loadReturns(t)
    /\ UNCHANGED <<impl, hostVars, foldVars, ledger, domainName, walletClient, error,
                   edit, setups, listeners, inbox, epoch, staleCallback>>

\* queryFilter rejects: catch (setError), finally
load_queryRejected(t) ==
    /\ t \in loads /\ t.pc = "served"
    /\ error' = ERR_TRANSPORT
    /\ loadReturns(t)
    /\ UNCHANGED <<impl, hostVars, foldVars, ledger, domainName, walletClient, records,
                   edit, setups, listeners, inbox, epoch, staleCallback>>

-----------------------------------------------------------------------------
(* useEffect and the listener                                              *)

\* The cleanup React runs before the effect runs again: the effect returns
\* nothing (the disposer setupEventListener returns is dropped with its
\* promise), so the listeners stay as they are.
effectCleanup(ls) == ls

\* The effect body for a name and a wallet client: loadResolverData() and
\* setupEventListener(), both up to their first await.
effectBodyWithin(name, wallet, room) ==
    IF name # NoName /\ wallet
    THEN /\ loads' = loads \cup {loadWithin(name, 0, room)}
         /\ loading' = TRUE
         /\ error' = errorAtLoad
         /\ setups' = setups \cup {[name |-> name, epoch |-> epoch + 1]}
    ELSE UNCHANGED <<loads, loading, error, setups>>

effectBody(name, wallet) == effectBodyWithin(name, wallet, MaxLoads)

\* The records table and its buttons are rendered: RecordsPage returns early
\* without a wallet client; App-old renders the table inside the connected
\* view, for a selected domain.
shown == walletClient /\ (impl = "AppOld" => domainName # NoName)

\* The name changes and the effect runs again.  RecordsPage: the route
\* parameter :domainName becomes another name.  App-old: Manage Records of
\* the domain list, setSelectedDomain(domain.label), or Back to Domains,
\* setSelectedDomain('') and setEditingRecordKey(null).
NavigateWithin(name, room) ==
    /\ name # domainName
    /\ IF impl = "RecordsPage"
       THEN name # NoName /\ UNCHANGED edit
       ELSE /\ walletClient
            /\ (name = NoName) # (domainName = NoName)
            /\ edit' = IF name = NoName THEN [edit EXCEPT !.key = "null"] ELSE edit
    /\ epoch < MaxEffects
    /\ Cardinality(loads) < room
    /\ domainName' = name
    /\ epoch' = epoch + 1
    /\ listeners' = effectCleanup(listeners)
    /\ effectBodyWithin(name, walletClient, room)
    /\ UNCHANGED <<impl, hostVars, foldVars, ledger, walletClient, records, updates,
                   inbox, lastDone, staleCallback>>

Navigate(name) == NavigateWithin(name, MaxLoads)

\* useWalletClient() yields a client, or none any more.  RecordsPage lists
\* walletClient in the effect's dependencies, App-old does not.
WalletChange ==
    /\ walletClient' = ~walletClient
    /\ IF impl = "RecordsPage"
       THEN /\ epoch < MaxEffects
            /\ Cardinality(loads) < MaxLoads
            /\ epoch' = epoch + 1
            /\ listeners' = effectCleanup(listeners)
            /\ effectBody(domainName, walletClient')
       ELSE UNCHANGED <<epoch, listeners, loads, loading, error, setups>>
    /\ UNCHANGED <<impl, hostVars, foldVars, ledger, domainName, records, edit, updates,
                   inbox, lastDone, staleCallback>>

\* setupEventListener: getResolverContract() yields the contract,
\* resolver.on(filter, handleRecordChanged)
setup_signerOk(s) ==
    /\ s \in setups
    /\ setups' = setups \ {s}
    /\ listeners' = listeners \cup {s}
    /\ UNCHANGED <<impl, hostVars, foldVars, ledger, domainName, walletClient, loading,
                   error, records, edit, loads, updates, inbox, epoch,
                   lastDone, staleCallback>>

\* setupEventListener: `if (!resolver) return`
setup_signerFail(s) ==
    /\ s \in setups
    /\ setups' = setups \ {s}
    /\ UNCHANGED <<impl, hostVars, foldVars, ledger, domainName, walletClient, loading,
                   error, records, edit, loads, updates, listeners, inbox,
                   epoch, lastDone, staleCallback>>

\* A handler that shows the event it was called with: it decodes the event's
\* arguments and adds the entry to the records, then reloads.
handleRecordChanged_applyPayload(m) ==
    /\ m \in inbox
    /\ m.listener \in listeners
    /\ Cardinality(loads) < MaxLoads
    /\ inbox' = inbox \ {m}
    /\ records' = records \o reduced(m.listener.name, <<ledger[m.at]>>)
    /\ loads' = loads \cup {newLoad(m.listener.name, 0)}
    /\ loading' = TRUE
    /\ error' = errorAtLoad
    /\ staleCallback' = (staleCallback \/ m.listener.epoch # epoch)
    /\ UNCHANGED <<impl, hostVars, foldVars, ledger, domainName, walletClient,
                   edit, updates, setups, listeners, epoch, lastDone>>

\* The provider calls a listener for an event: handleRecordChanged runs
\* loadResolverData() of the render the effect ran in.
handleRecordChangedWithin(m, room) ==
    /\ m \in inbox
    /\ m.listener \in listeners
    /\ Cardinality(loads) < room
    /\ inbox' = inbox \ {m}
    /\ loads' = loads \cup {loadWithin(m.listener.name, 0, room)}
    /\ loading' = TRUE
    /\ error' = errorAtLoad
    /\ staleCallback' = (staleCallback \/ m.listener.epoch # epoch)
    /\ UNCHANGED <<impl, hostVars, foldVars, ledger, domainName, walletClient, records,
                   edit, updates, setups, listeners, epoch, lastDone>>

handleRecordChanged(m) == handleRecordChangedWithin(m, MaxLoads)

\* App-old's Refresh button: onClick={loadResolverData} disabled={loading}
Refresh ==
    /\ impl = "AppOld"
    /\ shown /\ ~loading
    /\ Cardinality(loads) < MaxLoads
    /\ loads' = loads \cup {newLoad(domainName, 0)}
    /\ loading' = TRUE
    /\ error' = errorAtLoad
    /\ UNCHANGED <<impl, hostVars, foldVars, ledger, domainName, walletClient, records,
                   edit, updates, setups, listeners, inbox, epoch, lastDone,
                   staleCallback>>

-----------------------------------------------------------------------------
(* The edit state                                                          *)

\* the Add Record button: disabled={loading || editingRecordKey !== null},
\* in App-old disabled={loading}
handleAddNewRecord ==
    /\ shown /\ ~loading
    /\ impl = "RecordsPage" => edit.key = "null"
    /\ edit' = [key |-> "new-record", value |-> <<>>, type |-> TYPE_A,
                label |-> <<>>]
    /\ UNCHANGED <<impl, hostVars, foldVars, ledger, domainName, walletClient, loading,
                   error, records, loads, updates, setups, listeners, inbox,
                   epoch, lastDone, staleCallback>>

\* the Edit button of a row of the table: disabled={loading}
handleEditRecord(r) ==
    /\ shown /\ ~loading
    /\ edit' = [key |-> "row", value |-> r.decodedValue,
                type |-> r.recordType, label |-> r.label]
    /\ UNCHANGED <<impl, hostVars, foldVars, ledger, domainName, walletClient, loading,
                   error, records, loads, updates, setups, listeners, inbox,
                   epoch, lastDone, staleCallback>>

\* the Cancel buttons, shown while editing: disabled={loading}
handleCancelEdit ==
    /\ shown /\ ~loading /\ edit.key # "null"
    /\ edit' = EditDefault
    /\ UNCHANGED <<impl, hostVars, foldVars, ledger, domainName, walletClient, loading,
                   error, records, loads, updates, setups, listeners, inbox,
                   epoch, lastDone, staleCallback>>

\* the value input, shown while a row or the new record is edited
setEditValue(v) ==
    /\ shown /\ edit.key # "null"
    /\ edit' = [edit EXCEPT !.value = v]
    /\ UNCHANGED <<impl, hostVars, foldVars, ledger, domainName, walletClient, loading,
                   error, records, loads, updates, setups, listeners, inbox,
                   epoch, lastDone, staleCallback>>

\* the type select of the new record
setEditType(t) ==
    /\ shown /\ edit.key = "new-record"
    /\ edit' = [edit EXCEPT !.type = t]
    /\ UNCHANGED <<impl, hostVars, foldVars, ledger, domainName, walletClient, loading,
                   error, records, loads, updates, setups, listeners, inbox,
                   epoch, lastDone, staleCallback>>

\* the Save buttons: disabled={loading || !editValue}
SaveDisabled == loading \/ edit.value = <<>>

-----------------------------------------------------------------------------
(* updateRecord                                                            *)

\* a guard that forgets the value
updateGuard_anyValue(name, value, wallet) ==
    name # NoName /\ wallet

\* `if (!domainName || !value || !walletClient) return;` negated
updateGuard(name, value, wallet) ==
    name # NoName /\ value # <<>> /\ wallet

\* a catch block that submits once more before it gives up
updateFails_retry(u, message) ==
    IF u.sent < 2
    THEN /\ updates' = (updates \ {u}) \cup
               {[u EXCEPT !.pc = "send", !.sent = u.sent + 1]}
         /\ UNCHANGED <<error, loading, lastDone, records, loads, edit>>
    ELSE /\ error' = message
         /\ loading' = FALSE
         /\ updates' = updates \ {u}
         /\ lastDone' = [outcome |-> "failed", empty |-> u.value = <<>>]
         /\ UNCHANGED <<records, loads, edit>>

\* The call returns through catch and finally: setError, setLoading(false).
updateFails(u, message) ==
    /\ error' = message
    /\ loading' = FALSE
    /\ updates' = updates \ {u}
    /\ lastDone' = [outcome |-> "failed", empty |-> u.value = <<>>]
    /\ UNCHANGED <<records, loads, edit>>

\* handleSaveRecord: updateRecord(editType, editLabel, editValue) up to its
\* first await.  The Save buttons are shown while editing and are disabled
\* while SaveDisabled; the check of the value is left to updateRecord, which
\* is called here with every value the field can hold.
handleSaveRecord ==
    /\ shown /\ edit.key # "null" /\ ~loading
    /\ Cardinality(updates) < MaxUpdates
    /\ IF updateGuard(domainName, edit.value, walletClient)
       THEN /\ updates' = updates \cup
                  {[id |-> freeId(updates, MaxUpdates), name |-> domainName,
                    recordType |-> edit.type, label |-> edit.label,
                    value |-> edit.value, pc |-> "signer", tx |-> "none",
                    sent |-> 0, alerted |-> FALSE]}
            /\ error' = ""
            /\ loading' = TRUE
            /\ UNCHANGED lastDone
       ELSE /\ lastDone' = [outcome |-> "returned", empty |-> edit.value = <<>>]
            /\ UNCHANGED <<updates, error, loading>>
    /\ UNCHANGED <<impl, hostVars, foldVars, ledger, domainName, walletClient, records,
                   edit, loads, setups, listeners, inbox, epoch, staleCallback>>

\* getResolverContract() yields null: `if (!resolver) return`, finally
update_signerFail(u) ==
    /\ u \in updates /\ u.pc = "signer"
    /\ updates' = updates \ {u}
    /\ loading' = FALSE
    /\ lastDone' = [outcome |-> "returned", empty |-> u.value = <<>>]
    /\ UNCHANGED <<impl, hostVars, foldVars, ledger, domainName, walletClient, error,
                   records, edit, loads, setups, listeners, inbox, epoch,
                   staleCallback>>

\* getResolverContract() yields the contract: the three encodings, then
\* resolver.setRecord(...) is called, unless abiCoder.encode threw
update_signerOk(u) ==
    /\ u \in updates /\ u.pc = "signer"
    /\ IF encodeData(u.recordType, u.value).ok
       THEN /\ updates' = (updates \ {u}) \cup
                  {[u EXCEPT !.pc = "send", !.sent = u.sent + 1]}
            /\ UNCHANGED <<loading, error, records, loads, edit, lastDone>>
       ELSE updateFails(u, ERR_ADDRESS)
    /\ UNCHANGED <<impl, hostVars, foldVars, ledger, domainName, walletClient, setups,
                   listeners, inbox, epoch, staleCallback>>

\* a submit that shows the new value as soon as the transaction is sent
update_sendResolved_optimistic(u) ==
    /\ u \in updates /\ u.pc = "send"
    /\ updates' = (updates \ {u}) \cup
          {[u EXCEPT !.pc = "wait", !.tx = "pending"]}
    /\ records' = Append(records, [recordType |-> u.recordType,
                                   label |-> u.label,
                                   data |-> encodeData(u.recordType, u.value).data,
                                   decodedValue |-> u.value])
    /\ UNCHANGED <<impl, hostVars, foldVars, ledger, domainName, walletClient, loading,
                   error, edit, loads, setups, listeners, inbox, epoch,
                   lastDone, staleCallback>>

\* a submit that reports success as soon as the transaction is sent
update_sendResolved_eager(u) ==
    /\ u \in updates /\ u.pc = "send"
    /\ updates' = (updates \ {u}) \cup
          {[u EXCEPT !.pc = "wait", !.tx = "pending", !.alerted = TRUE]}
    /\ edit' = EditDefault
    /\ UNCHANGED <<impl, hostVars, foldVars, ledger, domainName, walletClient, loading,
                   error, records, loads, setups, listeners, inbox, epoch,
                   lastDone, staleCallback>>

\* setRecord resolves with the transaction response
update_sendResolved(u) ==
    /\ u \in updates /\ u.pc = "send"
    /\ updates' = (updates \ {u}) \cup
          {[u EXCEPT !.pc = "wait", !.tx = "pending"]}
    /\ UNCHANGED <<impl, hostVars, foldVars, ledger, domainName, walletClient, loading,
                   error, records, edit, loads, setups, listeners, inbox,
                   epoch, lastDone, staleCallback>>

\* setRecord rejects: the user declined, the node rejected, the transport failed
update_sendRejected(u, message) ==
    /\ u \in updates /\ u.pc = "send"
    /\ updateFails(u, message)
    /\ UNCHANGED <<impl, hostVars, foldVars, ledger, domainName, walletClient, setups,
                   listeners, inbox, epoch, staleCallback>>

\* The transaction, or the transaction the wallet replaced it with, is mined:
\* the resolver appends the event.
tx_lands(u, how, room) ==
    /\ u \in updates /\ u.pc = "wait" /\ u.tx = "pending"
    /\ Len(ledger) < room
    /\ LET e == eventOf(submitNameHex(u.name), u.recordType, encodeLabel(u.label),
                        encodeData(u.recordType, u.value).data)
       IN  /\ ledger' = Append(ledger, e)
           /\ inbox' = inbox \cup notified(e, Len(ledger) + 1)
    /\ updates' = (updates \ {u}) \cup {[u EXCEPT !.tx = how]}
    /\ UNCHANGED <<impl, hostVars, foldVars, domainName, walletClient, loading, error,
                   records, edit, loads, setups, listeners, epoch, lastDone,
                   staleCallback>>

tx_mined(u, how) == tx_lands(u, how, MaxLedger)

\* the transaction is mined and reverts: nothing is appended
tx_reverted(u) ==
    /\ u \in updates /\ u.pc = "wait" /\ u.tx = "pending"
    /\ updates' = (updates \ {u}) \cup {[u EXCEPT !.tx = "reverted"]}
    /\ UNCHANGED <<impl, hostVars, foldVars, ledger, domainName, walletClient, loading,
                   error, records, edit, loads, setups, listeners, inbox,
                   epoch, lastDone, staleCallback>>

\* tx.wait() resolves: alert, the edit state is reset, loadResolverData()
\* is called and awaited
update_waitResolved(u) ==
    /\ u \in updates /\ u.pc = "wait" /\ u.tx = "mined"
    /\ Cardinality(loads) < MaxLoads
    /\ updates' = (updates \ {u}) \cup
          {[u EXCEPT !.pc = "reload", !.alerted = TRUE]}
    /\ edit' = EditDefault
    /\ loads' = loads \cup {newLoad(u.name, u.id)}
    /\ loading' = TRUE
    /\ error' = errorAtLoad
    /\ UNCHANGED <<impl, hostVars, foldVars, ledger, domainName, walletClient, records,
                   setups, listeners, inbox, epoch, lastDone, staleCallback>>

\* tx.wait() rejects: the transaction reverted, or was replaced
update_waitRejected(u) ==
    /\ u \in updates /\ u.pc = "wait" /\ u.tx \in {"reverted", "replaced"}
    /\ updateFails(u, ERR_REJECTED)
    /\ UNCHANGED <<impl, hostVars, foldVars, ledger, domainName, walletClient, setups,
                   listeners, inbox, epoch, staleCallback>>

-----------------------------------------------------------------------------
(* The page specification                                                  *)

Next ==
    \/ \E e \in ForeignEvents : ForeignAppend(e)
    \/ \E t \in loads : load_signerFail(t)
    \/ \E t \in loads : load_queryServed(t)
    \/ \E t \in loads : load_queryResolved(t)
    \/ \E t \in loads : load_queryRejected(t)
    \/ \E n \in Names \cup {NoName} : Navigate(n)
    \/ WalletChange
    \/ \E s \in setups : setup_signerOk(s)
    \/ \E s \in setups : setup_signerFail(s)
    \/ \E m \in inbox : handleRecordChanged(m)
    \/ Refresh
    \/ handleAddNewRecord
    \/ \E r \in {records[i] : i \in 1..Len(records)} : handleEditRecord(r)
    \/ handleCancelEdit
    \/ \E v \in PageValues : setEditValue(v)
    \/ \E t \in PageTypes : setEditType(t)
    \/ handleSaveRecord
    \/ \E u \in updates : update_signerFail(u)
    \/ \E u \in updates : update_signerOk(u)
    \/ \E u \in updates : update_sendResolved(u)
    \/ \E u \in updates, m \in SendErrors : update_sendRejected(u, m)
    \/ \E u \in updates, how \in {"mined", "replaced"} : tx_mined(u, how)
    \/ \E u \in updates : tx_reverted(u)
    \/ \E u \in updates : update_waitResolved(u)
    \/ \E u \in updates : update_waitRejected(u)

Spec == Init /\ [][Next]_vars

-----------------------------------------------------------------------------
(* Submissions on a mounted page                                           *)

\* The page once it is mounted for a name with a wallet client: the effect
\* has run, its load has returned and its listener is registered.
SubmitInit ==
    /\ impl \in {"RecordsPage", "AppOld"}
    /\ hostIdle
    /\ events = <<>>
    /\ recordMap = <<>>
    /\ ledger = <<>>
    /\ domainName = NAME_A
    /\ walletClient = TRUE
    /\ loading = FALSE
    /\ error = ""
    /\ records = <<>>
    /\ edit = EditDefault
    /\ loads = {}
    /\ updates = {}
    /\ setups = {}
    /\ listeners = {[name |-> NAME_A, epoch |-> 1]}
    /\ inbox = {}
    /\ epoch = 1
    /\ lastDone = NoCall
    /\ staleCallback = FALSE

\* what happens while the name and the wallet client stay as they are
SubmitNext ==
    \/ \E e \in ForeignEvents : ForeignAppend(e)
    \/ \E t \in loads : load_signerFail(t)
    \/ \E t \in loads : load_queryServed(t)
    \/ \E t \in loads : load_queryResolved(t)
    \/ \E t \in loads : load_queryRejected(t)
    \/ \E m \in inbox : handleRecordChanged(m)
    \/ Refresh
    \/ handleAddNewRecord
    \/ \E r \in {records[i] : i \in 1..Len(records)} : handleEditRecord(r)
    \/ handleCancelEdit
    \/ \E v \in PageValues : setEditValue(v)
    \/ \E t \in PageTypes : setEditType(t)
    \/ handleSaveRecord
    \/ \E u \in updates : update_signerFail(u)
    \/ \E u \in updates : update_signerOk(u)
    \/ \E u \in updates : update_sendResolved(u)
    \/ \E u \in updates, m \in SendErrors : update_sendRejected(u, m)
    \/ \E u \in updates, how \in {"mined", "replaced"} : tx_mined(u, how)
    \/ \E u \in updates : tx_reverted(u)
    \/ \E u \in updates : update_waitResolved(u)
    \/ \E u \in updates : update_waitRejected(u)

SubmitSpec == SubmitInit /\ [][SubmitNext]_vars

-----------------------------------------------------------------------------
(* Two submissions for one key, both in flight                             *)

\* the two values typed for the same record: "x" and "y"
VALUE_X == <<120>>
VALUE_Y == <<121>>
RaceValues == {VALUE_X, VALUE_Y}

\* how many events the resolver's log takes in the race
RaceLedger == 2

\* an updateRecord call for the default A record of the page's name, up to
\* its first await
submission(id, value) ==
    [id |-> id, name |-> NAME_A, recordType |-> TYPE_A, label |-> <<>>,
     value |-> value, pc |-> "signer", tx |-> "none", sent |-> 0,
     alerted |-> FALSE]

\* The mounted page with two updateRecord calls started one after the other,
\* in either order of the two values, and neither sent yet: Save was clicked
\* again after an earlier load had returned and set loading to false.
RaceInit ==
    /\ impl \in {"RecordsPage", "AppOld"}
    /\ hostIdle
    /\ events = <<>>
    /\ recordMap = <<>>
    /\ ledger = <<>>
    /\ domainName = NAME_A
    /\ walletClient = TRUE
    /\ loading = TRUE
    /\ error = ""
    /\ records = <<>>
    /\ \E first \in RaceValues : \E second \in RaceValues \ {first} :
          /\ updates = {submission(1, first), submission(2, second)}
          /\ edit = [key |-> "new-record", value |-> second, type |-> TYPE_A,
                     label |-> <<>>]
    /\ loads = {}
    /\ setups = {}
    /\ listeners = {[name |-> NAME_A, epoch |-> 1]}
    /\ inbox = {}
    /\ epoch = 1
    /\ lastDone = NoCall
    /\ staleCallback = FALSE

\* both submissions are sent, mined and confirmed, in any interleaving, and
\* the page reloads on every signal
RaceNext ==
    \/ \E u \in updates : update_signerOk(u)
    \/ \E u \in updates : update_sendResolved(u)
    \/ \E u \in updates : tx_lands(u, "mined", RaceLedger)
    \/ \E u \in updates : update_waitResolved(u)
    \/ \E m \in inbox : handleRecordChanged(m)
    \/ \E t \in loads : load_queryServed(t)
    \/ \E t \in loads : load_queryResolved(t)

RaceSpec == RaceInit /\ [][RaceNext]_vars

-----------------------------------------------------------------------------
(* One submission and the load that follows it, over names, labels, types  *)
(* and values                                                               *)

\* "aaaa...a", 32 bytes: a name that fills the key
NAME_32 == seqOf([i \in 1..KeyLen |-> 97])

\* two names of 33 bytes that share their first 32 bytes
NAME_33B == NAME_32 \o <<98>>
NAME_33C == NAME_32 \o <<99>>

\* 31 times "a" and U+00E9, whose two bytes C3 A9 straddle the 32nd byte
NAME_CUT == SubSeq(NAME_32, 1, KeyLen - 1) \o <<233>>

CodecNames == {NAME_A, NAME_32, NAME_33B, NAME_33C, NAME_CUT}

\* the labels typed into the label field: none, "a", " ", U+00E9, 32 times "a"
CodecLabels == {<<>>, <<97>>, <<32>>, <<233>>, NAME_32}

\* '0x1111111111111111111111111111111111111111'
ADDR_TEXT == <<CH_0, CH_x>> \o seqOf([i \in 1..(2 * AddrLen) |-> CH_0 + 1])

\* the values typed into the value field: "x", U+00E9 and an address
CodecValues == {VALUE_X, <<233>>, ADDR_TEXT}

\* The page mounted for a name with a wallet client, a new record typed in
\* and nothing loaded yet.
CodecInit ==
    /\ impl = "RecordsPage"
    /\ hostIdle
    /\ events = <<>>
    /\ recordMap = <<>>
    /\ ledger = <<>>
    /\ domainName \in CodecNames
    /\ walletClient = TRUE
    /\ loading = FALSE
    /\ error = ""
    /\ records = <<>>
    /\ edit \in [key : {"new-record"}, value : CodecValues, type : PageTypes,
                  label : CodecLabels]
    /\ loads = {}
    /\ updates = {}
    /\ setups = {}
    /\ listeners = {}
    /\ inbox = {}
    /\ epoch = 1
    /\ lastDone = NoCall
    /\ staleCallback = FALSE

\* Save, and what follows it up to the end of the follow-up load
CodecNext ==
    \/ handleSaveRecord
    \/ \E u \in updates : update_signerOk(u)
    \/ \E u \in updates : update_sendResolved(u)
    \/ \E u \in updates : tx_mined(u, "mined")
    \/ \E u \in updates : update_waitResolved(u)
    \/ \E t \in loads : load_queryServed(t)
    \/ \E t \in loads : load_queryResolved(t)

CodecSpec == CodecInit /\ [][CodecNext]_vars

-----------------------------------------------------------------------------
(* The page from the moment it is opened, with a provider that answers     *)

\* The effect has just run for the name and the wallet client: the initial
\* loadResolverData() and setupEventListener() are both at their first await.
OpenInit ==
    /\ impl \in {"RecordsPage", "AppOld"}
    /\ hostIdle
    /\ events = <<>>
    /\ recordMap = <<>>
    /\ ledger = <<>>
    /\ domainName = NAME_A
    /\ walletClient = TRUE
    /\ loading = TRUE
    /\ error = ""
    /\ records = <<>>
    /\ edit = EditDefault
    /\ loads = {[id |-> 1, name |-> NAME_A, pc |-> "signer", n |-> 0, by |-> 0]}
    /\ updates = {}
    /\ setups = {[name |-> NAME_A, epoch |-> 1]}
    /\ listeners = {}
    /\ inbox = {}
    /\ epoch = 1
    /\ lastDone = NoCall
    /\ staleCallback = FALSE

\* what happens while the name and the wallet client stay as they are and
\* every request to the provider is answered
OpenNext ==
    \/ \E e \in ForeignEvents : ForeignAppend(e)
    \/ \E s \in setups : setup_signerOk(s)
    \/ \E m \in inbox : handleRecordChanged(m)
    \/ \E t \in loads : load_queryServed(t)
    \/ \E t \in loads : load_queryResolved(t)
    \/ Refresh
    \/ handleAddNewRecord
    \/ \E r \in {records[i] : i \in 1..Len(records)} : handleEditRecord(r)
    \/ handleCancelEdit
    \/ \E v \in PageValues : setEditValue(v)
    \/ \E t \in PageTypes : setEditType(t)
    \/ handleSaveRecord
    \/ \E u \in updates : update_signerOk(u)
    \/ \E u \in updates : update_sendResolved(u)
    \/ \E u \in updates : tx_mined(u, "mined")
    \/ \E u \in updates : update_waitResolved(u)

OpenSpec == OpenInit /\ [][OpenNext]_vars

-----------------------------------------------------------------------------
(* The page while the name changes under a load                            *)

\* how many loads are in flight together while the name changes
NavLoads == 2

\* the name changes while loads are on their way, and every request to the
\* provider is answered
NavNext ==
    \/ \E e \in ForeignEvents : ForeignAppend(e)
    \/ \E n \in Names \cup {NoName} : NavigateWithin(n, NavLoads)
    \/ \E s \in setups : setup_signerOk(s)
    \/ \E m \in inbox : handleRecordChanged(m)
    \/ \E t \in loads : load_queryServed(t)
    \/ \E t \in loads : load_queryResolved(t)
    \/ handleAddNewRecord
    \/ \E r \in {records[i] : i \in 1..Len(records)} : handleEditRecord(r)
    \/ handleCancelEdit
    \/ \E v \in PageValues : setEditValue(v)

NavSpec == OpenInit /\ [][NavNext]_vars

-----------------------------------------------------------------------------
(* The mounted page of any name, next to a listener left by another name   *)

\* The page mounted for a name, its listener registered, after it was
\* mounted for another name before: that name's listener is still
\* registered.  A new record with value "x" is typed in.
ScopeInit ==
    /\ impl \in {"RecordsPage", "AppOld"}
    /\ hostIdle
    /\ events = <<>>
    /\ recordMap = <<>>
    /\ ledger = <<>>
    /\ domainName \in CodecNames
    /\ walletClient = TRUE
    /\ loading = FALSE
    /\ error = ""
    /\ records = <<>>
    /\ edit = [key |-> "new-record", value |-> VALUE_X, type |-> TYPE_A,
               label |-> <<>>]
    /\ loads = {}
    /\ updates = {}
    /\ setups = {}
    /\ \E before \in CodecNames \ {domainName} :
          listeners = {[name |-> before, epoch |-> 1],
                       [name |-> domainName, epoch |-> 2]}
    /\ inbox = {}
    /\ epoch = 2
    /\ lastDone = NoCall
    /\ staleCallback = FALSE

\* a submission, foreign events, the listeners and the loads
ScopeNext ==
    \/ \E e \in ForeignEvents : ForeignAppend(e)
    \/ \E m \in inbox : handleRecordChanged(m)
    \/ \E t \in loads : load_queryServed(t)
    \/ \E t \in loads : load_queryResolved(t)
    \/ handleSaveRecord
    \/ \E u \in updates : update_signerOk(u)
    \/ \E u \in updates : update_sendResolved(u)
    \/ \E u \in updates : tx_mined(u, "mined")
    \/ \E u \in updates : update_waitResolved(u)

ScopeSpec == ScopeInit /\ [][ScopeNext]_vars

-----------------------------------------------------------------------------
(* The fold specification: the reducers' loops, one iteration per step,    *)
(* over every event sequence of one name up to MaxEvents events.           *)

MaxEvents == 3

\* the name whose log is folded ("a")
FoldName == <<97>>

\* a digits-only address, '0x' and forty times '1'
ADDR_ONES == <<CH_0, CH_x>> \o seqOf([i \in 1..(2 * AddrLen) |-> 49])

\* the bytes of abiCoder.encode(['address'], [ADDR_ONES])
WORD_ONES ==
    seqOf([i \in 1..WordLen |-> IF i <= WordLen - AddrLen THEN 0 ELSE 17])

\* Labels on the ledger: none, "a" as the page writes it, and a label of
\* another writer whose bytes are 00 61 00 ... 00.
LABEL_NONE == <<>>

LABEL_A == trim32(bytes32Of(<<97>>))

LABEL_NUL_A == <<0, 97>>

FoldLabels == {LABEL_NONE, LABEL_A, LABEL_NUL_A}

FoldTypes == {TYPE_TXT, TYPE_ETH_ADDRESS}

\* data: cleared, the text "x", the ABI word of ADDR_ONES
FoldData == {<<>>, toUtf8Bytes(<<120>>), WORD_ONES}

\* every label with: a text record set to "x" and cleared, an address record
\* set to ADDR_ONES and to data that is no ABI word
FoldEvents ==
    {e \in [name : {trim32(bytes32Of(FoldName))}, label : FoldLabels,
            recordType : FoldTypes, data : FoldData] :
        /\ e.recordType = TYPE_TXT => e.data # WORD_ONES
        /\ e.recordType = TYPE_ETH_ADDRESS => e.data # <<>>}

FoldInit ==
    /\ impl \in {"RecordsPage", "AppOld"}
    /\ hostIdle
    /\ events = <<>>
    /\ recordMap = <<>>
    /\ PageInit

\* RecordsPage.loadResolverData: one iteration of the loop
RecordsPage_forEvent(e) ==
    /\ impl = "RecordsPage"
    /\ Len(events) < MaxEvents
    /\ events' = Append(events, e)
    /\ recordMap' = processEvent(recordMap, e)
    /\ UNCHANGED <<impl, hostVars, pageVars>>

\* App-old loadResolverData: one iteration of the loop
AppOld_forEvent(e) ==
    /\ impl = "AppOld"
    /\ Len(events) < MaxEvents
    /\ events' = Append(events, e)
    /\ recordMap' = processEventOld(recordMap, e, nameHexOf(FoldName))
    /\ UNCHANGED <<impl, hostVars, pageVars>>

FoldNext ==
    \/ \E e \in FoldEvents : RecordsPage_forEvent(e)
    \/ \E e \in FoldEvents : AppOld_forEvent(e)

FoldSpec == FoldInit /\ [][FoldNext]_vars

-----------------------------------------------------------------------------
(* Properties of the reducers                                              *)

\* the reducer's key of an event, RecordsPage: (recordType, decoded label)
pageKeyOf(e) ==
    recordKeyOf(number(e.recordType), decodeLabel(argsOf(e).label))

\* the ledger's key of an event: (recordType, 32-byte label)
ledgerKeyOf(e) == <<e.recordType, e.label>>

\* the page keys of a sequence of events, position by position
pageKeysOf(evs) == seqOf([i \in 1..Len(evs) |-> pageKeyOf(evs[i])])

\* the last position that holds key k in a sequence of keys
lastOf(keys, k) ==
    CHOOSE i \in 1..Len(keys) :
        keys[i] = k /\ \A j \in (i + 1)..Len(keys) : keys[j] # k

(* C1: RecordsPage, last writer wins.  For every folded sequence and every *)
(* record key k = (recordType, label) occurring in it, the map holds       *)
(* exactly one entry for k and it carries the raw data and the decoded     *)
(* data of the last event for k, whatever came before and in between.      *)
C1_LastWriterWins ==
    impl = "RecordsPage" =>
        LET keys == pageKeysOf(events) IN
        \A p \in 1..Len(events) :
            LET k == keys[p]
                last == events[lastOf(keys, k)]
            IN  /\ Cardinality({i \in 1..Len(recordMap) : recordMap[i].key = k}) = 1
                /\ mapGet(recordMap, k).data = hexOf(last.data)
                /\ mapGet(recordMap, k).decodedValue
                       = decodeData(number(last.recordType), hexOf(last.data))
                /\ mapGet(recordMap, k).recordType = last.recordType

\* two events for one key with different data, another key in between
C1_Witness ==
    /\ impl = "RecordsPage"
    /\ Len(events) = 3
    /\ events[1].data # <<>>
    /\ events[3].data # <<>>
    /\ events[1].data # events[3].data
    /\ pageKeyOf(events[1]) = pageKeyOf(events[3])
    /\ pageKeyOf(events[2]) # pageKeyOf(events[1])
    /\ mapGet(recordMap, pageKeyOf(events[3])).data = hexOf(events[3].data)

(* C2: RecordsPage, tombstone.  When the last event for k has empty data   *)
(* and an earlier one had data, the map still holds k and its decoded      *)
(* value is empty; when a non-empty event follows a tombstone and is the   *)
(* last for k, the entry shows that event's value.                         *)
C2_Tombstone ==
    impl = "RecordsPage" =>
        LET keys == pageKeysOf(events) IN
        \A p \in 1..Len(events) :
            LET k == keys[p]
                n == lastOf(keys, k)
                earlier == {i \in 1..(n - 1) : keys[i] = k}
            IN  /\ ( /\ events[n].data = <<>>
                     /\ \E i \in earlier : events[i].data # <<>> )
                   => /\ hasKey(recordMap, k)
                      /\ mapGet(recordMap, k).decodedValue = <<>>
                      /\ mapGet(recordMap, k).data = EmptyHex
                /\ ( /\ events[n].data # <<>>
                     /\ \E i \in earlier : events[i].data = <<>> )
                   => /\ hasKey(recordMap, k)
                      /\ mapGet(recordMap, k).data = hexOf(events[n].data)
                      /\ mapGet(recordMap, k).decodedValue # <<>>

C2_Witness ==
    /\ impl = "RecordsPage"
    /\ Len(events) = 2
    /\ events[1].data # <<>>
    /\ events[2].data = <<>>
    /\ pageKeyOf(events[1]) = pageKeyOf(events[2])
    /\ hasKey(recordMap, pageKeyOf(events[2]))
    /\ mapGet(recordMap, pageKeyOf(events[2])).decodedValue = <<>>

\* the legacy reducer's key of an event: (recordType, raw label)
oldKeyOf(e) == recordKeyOld(bigint(e.recordType), argsOf(e).label)

(* C3: App-old, tombstone.  When key k received a non-empty event and      *)
(* later an empty one, and nothing after it, the state does not report an  *)
(* earlier non-empty value for k.                                          *)
C3_OldTombstoneClears ==
    impl = "AppOld" =>
        \A n \in 1..Len(events) :
            ( /\ events[n].data = <<>>
              /\ \A j \in (n + 1)..Len(events) : oldKeyOf(events[j]) # oldKeyOf(events[n])
              /\ \E i \in 1..(n - 1) :
                    /\ oldKeyOf(events[i]) = oldKeyOf(events[n])
                    /\ events[i].data # <<>> )
            => \/ ~hasKey(recordMap, oldKeyOf(events[n]))
               \/ mapGet(recordMap, oldKeyOf(events[n])).data = EmptyHex

\* evs without the events of ledger key k
withoutLedgerKey(evs, k) == SelectSeq(evs, LAMBDA e : ledgerKeyOf(e) # k)

\* the entry the RecordsPage reducer produces for the ledger key of e
entryFor(m, e) ==
    IF hasKey(m, pageKeyOf(e)) THEN <<mapGet(m, pageKeyOf(e))>> ELSE <<>>

(* C4: RecordsPage, unrelated keys are independent.  For two events with   *)
(* different ledger keys (recordType, 32-byte label), removing every event *)
(* of the first key from the log leaves the entry produced for the second  *)
(* key (raw data and decoded value) as it was.                             *)
C4_KeysIndependent ==
    impl = "RecordsPage" =>
        \A i, j \in 1..Len(events) :
            ledgerKeyOf(events[i]) # ledgerKeyOf(events[j])
            => entryFor(reduce(withoutLedgerKey(events, ledgerKeyOf(events[i]))),
                        events[j])
               = entryFor(recordMap, events[j])

-----------------------------------------------------------------------------
(* Properties of updateRecord and of the subscription                      *)

\* the call of updateRecord that task u stands for ends in this step
ends(u) == \A v \in updates' : v.id # u.id

\* ... and ends in the catch block
endsInCatch(u) == ends(u) /\ lastDone'.outcome = "failed"

\* C5: a call of updateRecord with value = '' never gets as far as setRecord:
\* no call in flight carries an empty value, the call for an empty value ends
\* at the guard, and the step in which it ends leaves the ledger and the calls
\* in flight as they were.  Both implementations.
C5_EmptyValueNeverSubmits ==
    /\ [](\A u \in updates : u.value # <<>>)
    /\ [][(lastDone'.empty /\ lastDone' # lastDone)
             => /\ lastDone'.outcome = "returned"
                /\ ledger' = ledger
                /\ updates' = updates]_vars

C5_Witness ==
    /\ lastDone = [outcome |-> "returned", empty |-> TRUE]
    /\ domainName # NoName /\ walletClient

\* C6: a call of updateRecord with value = '' ends in an error outcome: it
\* ends in the catch block, which sets the error state.
C6_EmptyValueIsReported ==
    lastDone.empty => lastDone.outcome = "failed"

\* C7: a RecordChanged handler is never invoked once the effect that
\* registered it has been cleaned up (the name or the wallet client changed).
C7_NoCallbackAfterTeardown == ~staleCallback

\* C8: nothing is applied optimistically and a failed submission leaves the
\* records alone: every entry of the records state carries the type and the
\* raw data of an event that is on the ledger; no step of an updateRecord
\* call that has not passed tx.wait() writes records; and the step in which
\* a call ends in its catch block writes no records and starts no load.
C8_FailedSubmitLeavesRecords ==
    /\ [](\A i \in 1..Len(records) : \E j \in 1..Len(ledger) :
              /\ records[i].recordType = ledger[j].recordType
              /\ records[i].data = hexOf(ledger[j].data))
    /\ [][\A u \in updates :
              /\ (u.pc # "reload" /\ u \notin updates') => records' = records
              /\ endsInCatch(u) => (records' = records /\ loads' = loads)]_vars

C8_Witness ==
    /\ lastDone.outcome = "failed"
    /\ error = ERR_REJECTED
    /\ records # <<>>

\* C9: the success alert, the reset of the edit state and the follow-up
\* loadResolverData come only after setRecord returned a transaction and
\* tx.wait() resolved, and not at all when the call ends in its catch block.
C9_SuccessOnlyAfterConfirmation ==
    /\ [](/\ \A u \in updates :
               (u.alerted \/ u.pc = "reload")
                  => (u.alerted /\ u.pc = "reload" /\ u.tx = "mined" /\ u.sent = 1)
          /\ \A t \in loads :
               t.by # 0 => \E u \in updates : u.id = t.by /\ u.pc = "reload")
    /\ [][\A u \in updates :
              /\ (u \notin updates' /\ u.pc # "reload"
                    /\ (edit' # edit \/ \E t \in loads' \ loads : t.by = u.id))
                 => (u.pc = "wait" /\ u.tx = "mined")
              /\ endsInCatch(u)
                 => (~u.alerted /\ edit' = edit /\ loads' = loads)]_vars

C9_Witness ==
    \E u \in updates :
        /\ u.alerted /\ u.pc = "reload"
        /\ \E t \in loads : t.by = u.id /\ t.pc = "served"
        /\ edit = EditDefault

\* C10: one call of updateRecord calls setRecord at most once, whatever its
\* outcome, and not before the signer is there.
C10_AtMostOneSetRecord ==
    \A u \in updates :
        /\ u.sent <= 1
        /\ u.pc = "signer" => u.sent = 0
        /\ u.pc \in {"send", "wait", "reload"} => u.sent = 1

C10_Witness ==
    \E u \in updates : u.sent = 1 /\ u.pc = "wait" /\ u.tx = "reverted"

-----------------------------------------------------------------------------
(* Properties of concurrent submissions                                    *)

\* the value the table shows for the default record of the page's name
shownDefault(rs) ==
    {rs[i].decodedValue : i \in {j \in 1..Len(rs) :
        rs[j].recordType = TYPE_A /\ rs[j].label = <<>>}}

\* C11: when two submissions for the same name, record type and label were
\* in flight together and both landed, every load that read the log after
\* both events and sets the records shows the value of the event that
\* landed later, whichever submit started first and whichever confirmation
\* was seen first.
C11_LaterEventWins ==
    [][\A t \in loads :
         (/\ \A u \in updates : u.tx = "mined"
          /\ t.pc = "served" /\ t.n = Len(ledger) /\ t \notin loads')
            => \E v \in RaceValues :
                  /\ ledger[Len(ledger)].data = toUtf8Bytes(v)
                  /\ shownDefault(records') = {v}]_vars

\* the submit started first landed later than the other one, and the table
\* shows its value
C11_Witness ==
    /\ Len(ledger) = 2
    /\ \E u \in updates :
          /\ u.id = 1 /\ u.tx = "mined"
          /\ ledger[1].data # toUtf8Bytes(u.value)
          /\ ledger[2].data = toUtf8Bytes(u.value)
          /\ shownDefault(records) = {u.value}

-----------------------------------------------------------------------------
(* Properties of the codecs                                                *)

\* what the load t is about to hand to setRecords
resultOf(t) == reduced(t.name, queryFilter(nameHexOf(t.name), t.n))

\* the follow-up load of the call u has read the log, which holds u's event
\* and nothing else
readsBack(u, t) ==
    /\ u \in updates /\ t \in loads
    /\ t.by = u.id /\ t.pc = "served" /\ t.n = 1 /\ Len(ledger) = 1

\* C12: once updateRecord(name, type, label, value) is confirmed, with a
\* non-empty value and a label of at most 32 UTF-8 bytes, and no later event
\* for the key, a fresh load yields an entry with that type, exactly that
\* label and exactly that value.
C12_SubmitThenRead ==
    \A u \in updates, t \in loads :
        (/\ readsBack(u, t)
         /\ u.value # <<>>
         /\ Len(toUtf8Bytes(u.label)) <= KeyLen)
            => \E i \in 1..Len(resultOf(t)) :
                  /\ resultOf(t)[i].recordType = u.recordType
                  /\ resultOf(t)[i].label = u.label
                  /\ resultOf(t)[i].decodedValue = u.value

\* the call u has built its keys and submitted them
keysBuilt(u) == u \in updates /\ u.pc # "signer"

\* C13: for every string of at most 32 UTF-8 bytes, the reducer's label
\* decoding of the 32-byte key built for it, as a name or as a label in
\* updateRecord, returns exactly the string.
C13_KeyRoundTrip ==
    \A u \in updates :
        keysBuilt(u) =>
            /\ Len(toUtf8Bytes(u.name)) <= KeyLen
                   => decodeLabel(nameHexOf(u.name)) = u.name
            /\ Len(toUtf8Bytes(u.label)) <= KeyLen
                   => decodeLabel(encodeLabel(u.label)) = u.label

\* the first 32 bytes of the UTF-8 encoding of a string, or all of them
first32(text) ==
    LET b == toUtf8Bytes(text) IN
    SubSeq(b, 1, IF Len(b) < KeyLen THEN Len(b) ELSE KeyLen)

\* the hex string is '0x' and 64 digits, its bytes are the first bytes of the
\* encoding of the text, then zeros
hasKeyShape(hex, text) ==
    LET k == hexToBytes(hex)
        b == first32(text)
    IN  /\ Len(hex) = 2 + 2 * KeyLen /\ hex[1] = CH_0 /\ hex[2] = CH_x
        /\ Len(k) = KeyLen
        /\ \A i \in 1..KeyLen : k[i] = IF i <= Len(b) THEN b[i] ELSE 0

\* C14: the key of a name is exactly 32 bytes, the first min(n, 32) bytes of
\* the name's UTF-8 encoding followed by zeros; a longer name is cut without
\* an error, so names that share their first 32 bytes have the same key and
\* the same log.
C14_EncodeKeyShape ==
    \A u \in updates :
        keysBuilt(u) =>
            /\ hasKeyShape(nameHexOf(u.name), u.name)
            /\ hasKeyShape(availabilityKey(u.name), u.name)
            /\ \A n \in CodecNames :
                  first32(n) = first32(u.name)
                     => /\ nameHexOf(n) = nameHexOf(u.name)
                        /\ \A i \in 1..Len(ledger) :
                              matches(ledger[i], nameHexOf(u.name))
                                 => matches(ledger[i], nameHexOf(n))

\* a record was submitted for a name of 33 bytes, and its event is in the
\* log of another name with the same first 32 bytes
C14_Witness ==
    /\ \E u \in updates : keysBuilt(u) /\ u.name = NAME_33B /\ u.tx = "mined"
    /\ Len(ledger) = 1
    /\ matches(ledger[1], nameHexOf(NAME_33C))
    /\ ~matches(ledger[1], nameHexOf(NAME_A))

-----------------------------------------------------------------------------
(* Properties of a second run of the reducer                               *)

\* the Map a run of the implementation's loop over evs ends with
rerun(evs) ==
    IF impl = "RecordsPage" THEN reduce(evs)
    ELSE reduceOld(evs, nameHexOf(FoldName))

-----------------------------------------------------------------------------
(* Properties of the change signal                                         *)

\* nothing is in flight and nothing is owed to the page: no load, no
\* submission, no listener set-up, no call of a registered handler
idle ==
    /\ loads = {} /\ updates = {} /\ setups = {}
    /\ \A m \in inbox : m.listener \notin listeners

\* what a load that read the whole log of the page's name would show
upToDate == reduced(domainName, queryFilter(nameHexOf(domainName), Len(ledger)))

\* C16: every change event for the page's name that lands after the page
\* was opened starts at least one load after it has landed.  When every load
\* succeeds this means: once nothing is in flight any more, the records are
\* those of the whole log, because the last load started after the last
\* event.
C16_NoChangeMissed ==
    idle => records = upToDate

\* the reductions of the log of the page's name, as far as it has grown
queryResults ==
    {reduced(domainName, queryFilter(nameHexOf(domainName), n)) :
        n \in 0..Len(ledger)}

\* C17: the pushed event is never trusted.  The records are only ever the
\* full reduction of a complete query of the name's log: they change only in
\* the step in which a load that has read the log returns, and they become
\* that load's result.  The listener's handler leaves the records alone
\* whatever event it is called for, and starts a load.
C17_RecordsOnlyFromQuery ==
    /\ [](records = <<>> \/ records \in queryResults)
    /\ [][(records' # records)
              => (\E t \in loads :
                     /\ t.pc = "served" /\ t \notin loads'
                     /\ records' = resultOf(t))]_vars
    /\ [][\A m \in inbox :
             (m \notin inbox')
                => (/\ records' = records
                    /\ \E t \in loads' \ loads :
                          t.pc = "signer" /\ t.name = m.listener.name)]_vars

\* the handler has run for an event of the page's name: its load is on the
\* way and the records are still those from before the event
C17_Witness ==
    /\ impl = "RecordsPage"
    /\ Len(ledger) = 1 /\ matches(ledger[1], nameHexOf(domainName))
    /\ inbox = {}
    /\ \E t \in loads : t.by = 0 /\ t.pc = "signer"
    /\ records = <<>>
    /\ upToDate # <<>>

-----------------------------------------------------------------------------
(* Properties of failing loads                                             *)

\* C18: a failed read is never presented as an empty or successful one.
\* When a load returns without the events, because the contract could not
\* be initialised or because the query was rejected, an error is set and
\* the records stay as they are.
C18_FailedReadIsReported ==
    [][\A t \in loads :
         (t \notin loads')
            => \/ t.pc = "served" /\ records' = resultOf(t)
               \/ error' # "" /\ records' = records]_vars

-----------------------------------------------------------------------------
(* Properties of events that do not decode                                 *)

\* the event carries data for an address type that is no ABI word of an
\* address
throwsOnDecode(e) ==
    /\ isAddressType(number(e.recordType))
    /\ e.data # <<>>
    /\ ~abiDecodeAddress(hexOf(e.data)).ok

\* the undecodable events among those of the fold, found once
UndecodableFoldEvents == {e \in FoldEvents : throwsOnDecode(e)}

undecodable(e) ==
    IF e \in FoldEvents THEN e \in UndecodableFoldEvents ELSE throwsOnDecode(e)

\* the log with the data of every undecodable event replaced by the ABI word
\* of an address
decodable(evs) ==
    seqOf([i \in 1..Len(evs) |->
             IF undecodable(evs[i]) THEN [evs[i] EXCEPT !.data = WORD_ONES]
             ELSE evs[i]])

\* C19: RecordsPage, an event whose data does not decode never aborts the
\* reduction.  The Map has the keys, in the order, it would have if the data
\* did decode; every key last written by another event has the entry it
\* would have then; and a key last written by an undecodable event carries
\* that event's raw data, also as its decoded value.
C19_BadEventIsKept ==
    impl = "RecordsPage" =>
        LET keys == pageKeysOf(events)
            good == reduce(decodable(events))
        IN  /\ Len(recordMap) = Len(good)
            /\ \A i \in 1..Len(recordMap) : recordMap[i].key = good[i].key
            /\ \A p \in 1..Len(events) :
                  LET k == keys[p]
                      last == events[lastOf(keys, k)]
                  IN  IF undecodable(last)
                      THEN /\ mapGet(recordMap, k).data = hexOf(last.data)
                           /\ mapGet(recordMap, k).decodedValue = hexOf(last.data)
                      ELSE mapGet(recordMap, k) = mapGet(good, k)

\* an undecodable event came first and was followed by an event for another
\* key: both keys are in the Map, the first with its raw data as value
C19_Witness ==
    /\ impl = "RecordsPage"
    /\ Len(events) = 2
    /\ undecodable(events[1])
    /\ ~undecodable(events[2])
    /\ pageKeyOf(events[2]) # pageKeyOf(events[1])
    /\ Len(recordMap) = 2
    /\ recordMap[1].value.decodedValue = hexOf(events[1].data)
    /\ recordMap[2].value.decodedValue = ADDR_ONES

-----------------------------------------------------------------------------
(* Properties of loads for a name that is no longer shown                  *)

\* C20: results for a name the user has navigated away from are ignored.
\* The records shown were computed from the events of the name shown: a load
\* that was started for another name and returns after the name has changed
\* leaves the records as they are.
C20_StaleLoadIgnored ==
    [][\A t \in loads :
         (t \notin loads' /\ t.name # domainName) => records' = records]_vars

-----------------------------------------------------------------------------
(* Properties of the ledger                                                *)

\* the event the call u appends when its transaction is mined
appendedBy(u) ==
    eventOf(submitNameHex(u.name), u.recordType, encodeLabel(u.label),
            encodeData(u.recordType, u.value).data)

C22_ListenerHasReaderScope ==
    [][(Len(ledger') = Len(ledger) + 1)
          => LET i == Len(ledger')
                 e == ledger'[i]
             IN  /\ \A l \in listeners :
                       ([listener |-> l, at |-> i] \in inbox')
                          <=> matches(e, nameHexOf(l.name))
                 /\ \A u \in updates :
                       (e = appendedBy(u) /\ updates' # updates)
                          => matches(e, nameHexOf(u.name))]_vars

\* a record submitted for a 33-byte name has landed: the page's listener is
\* owed a call and a fetch for the name returns the event, while the
\* listener left by the name "a" is owed none
C22_Witness ==
    /\ domainName = NAME_33B
    /\ Len(ledger) = 1
    /\ \E u \in updates : u.tx = "mined" /\ ledger[1] = appendedBy(u)
    /\ queryFilter(nameHexOf(domainName), 1) # <<>>
    /\ \E m \in inbox : m.listener.name = NAME_33B
    /\ [name |-> NAME_A, epoch |-> 1] \in listeners
    /\ \A m \in inbox : m.listener.name # NAME_A


-----------------------------------------------------------------------------
(* One Save per type of the type select, by either implementation          *)

TYPE_DID == 65345

\* types offered by the type select: two DNS types, the three address types
\* and an identity type
SelectTypes ==
    {TYPE_A, TYPE_TXT, TYPE_ETH_ADDRESS, TYPE_BTC_ADDRESS, TYPE_SOL_ADDRESS,
     TYPE_DID}

\* Either implementation mounted for 'a' with a wallet client, a new record
\* of some type typed in with the value "x" or an address, nothing loaded yet.
TypeInit ==
    /\ impl \in {"RecordsPage", "AppOld"}
    /\ hostIdle
    /\ events = <<>>
    /\ recordMap = <<>>
    /\ ledger = <<>>
    /\ domainName = NAME_A
    /\ walletClient = TRUE
    /\ loading = FALSE
    /\ error = ""
    /\ records = <<>>
    /\ edit \in [key : {"new-record"}, value : {VALUE_X, ADDR_TEXT},
                  type : SelectTypes, label : {<<>>}]
    /\ loads = {}
    /\ updates = {}
    /\ setups = {}
    /\ listeners = {}
    /\ inbox = {}
    /\ epoch = 1
    /\ lastDone = NoCall
    /\ staleCallback = FALSE

TypeSpec == TypeInit /\ [][CodecNext]_vars

\* updateRecord: the branch taken by "Encode data based on record type"
codecOfWrite(recordType) ==
    IF isAddressType(number(recordType)) THEN "address" ELSE "text"

\* loadResolverData: the branch taken by "Decode data based on type" for the
\* recordType argument of an event
codecOfRead(recordType) ==
    IF impl = "RecordsPage"
    THEN IF isAddressType(Number(recordType)) THEN "address" ELSE "text"
    ELSE IF isAddressTypeOld(recordType) THEN "address" ELSE "text"

\* C23: for every record type, updateRecord and loadResolverData choose the
\* same codec: the address ABI codec exactly for the ETH, BTC and SOL address
\* types and the UTF-8 text codec for every other type.  The value shown for
\* the event of a submission is therefore its data decoded with the codec
\* the submission encoded it with.
C23_SameCodec ==
    \A u \in updates, t \in loads :
        readsBack(u, t) =>
            LET a == argsOf(ledger[1])
                address == u.recordType \in {TYPE_ETH_ADDRESS, TYPE_BTC_ADDRESS,
                                             TYPE_SOL_ADDRESS}
            IN  /\ codecOfWrite(u.recordType) = IF address THEN "address" ELSE "text"
                /\ codecOfRead(a.recordType) = codecOfWrite(u.recordType)
                /\ Len(resultOf(t)) = 1
                /\ resultOf(t)[1].decodedValue
                      = IF address
                        THEN abiDecodeAddress(a.data).value
                        ELSE TextDecoderDecode(hexToBytes(a.data))

\* the same statement for RecordsPage alone
C23_SameCodecRecordsPage == (impl = "RecordsPage") => C23_SameCodec

-----------------------------------------------------------------------------
(* One Save of an address, typed in one of its forms                       *)

\* '0x', 39 times '1' and 'a', in lower case and in its EIP-55 casing, and
\* the address with 'a' first, whose EIP-55 casing is the lower case
ADDR_LOWER == <<CH_0, CH_x>> \o ONES_39 \o <<97>>

ADDR_CHECKSUM == <<CH_0, CH_x>> \o ONES_39 \o <<65>>

ADDR_A1 == <<CH_0, CH_x>> \o <<97>> \o ONES_39

\* the values typed into the value field: four addresses and "x"
AddressValues == {ADDR_TEXT, ADDR_LOWER, ADDR_CHECKSUM, ADDR_A1, VALUE_X}

AddressTypes == {TYPE_ETH_ADDRESS, TYPE_BTC_ADDRESS, TYPE_SOL_ADDRESS}

\* RecordsPage mounted with a wallet client, a new record of an address type
\* typed in, nothing loaded yet.
AddressInit ==
    /\ impl = "RecordsPage"
    /\ hostIdle
    /\ events = <<>>
    /\ recordMap = <<>>
    /\ ledger = <<>>
    /\ domainName \in {NAME_A, NAME_B}
    /\ walletClient = TRUE
    /\ loading = FALSE
    /\ error = ""
    /\ records = <<>>
    /\ edit \in [key : {"new-record"}, value : AddressValues,
                  type : AddressTypes, label : {<<>>}]
    /\ loads = {}
    /\ updates = {}
    /\ setups = {}
    /\ listeners = {}
    /\ inbox = {}
    /\ epoch = 1
    /\ lastDone = NoCall
    /\ staleCallback = FALSE

AddressSpec == AddressInit /\ [][CodecNext]_vars

\* C24: for every address type (ETH, BTC, SOL) and every valid address value
\* v, decoding the bytes produced by encoding v returns v: the value shown
\* for the event of a submission of v is v.
C24_AddressRoundTrip ==
    \A u \in updates, t \in loads :
        (readsBack(u, t) /\ u.recordType \in AddressTypes)
            => /\ Len(resultOf(t)) = 1
               /\ resultOf(t)[1].decodedValue = u.value

\* the same statement for the values typed in their EIP-55 casing
C24_CanonicalRoundTrip ==
    \A u \in updates, t \in loads :
        (/\ readsBack(u, t) /\ u.recordType \in AddressTypes
         /\ u.value = getAddress(addressDigits(u.value)))
            => /\ Len(resultOf(t)) = 1
               /\ resultOf(t)[1].decodedValue = u.value

-----------------------------------------------------------------------------
(* Properties of the failure reports                                       *)

\* the call u ends in this step because setRecord rejected with the message
sendFailsWith(u, message) ==
    /\ u \in updates /\ u.pc = "send"
    /\ updates' = updates \ {u}
    /\ error' = message

\* C25: when the authorizing party declines the setRecord transaction, the
\* outcome updateRecord reports differs in kind from the outcome it reports
\* for a ledger rejection or a transport failure, which is a failed call with
\* the error's message in the error state.
C25_DeclineIsDistinct ==
    [][\A u \in updates :
          sendFailsWith(u, ERR_DECLINED) => lastDone'.outcome # "failed"]_vars

\* a ledger rejection and a transport failure are reported as failed calls
C25_RejectionIsFailure ==
    [][\A u \in updates :
          (sendFailsWith(u, ERR_REJECTED) \/ sendFailsWith(u, ERR_TRANSPORT))
             => lastDone'.outcome = "failed" /\ ~loading']_vars

-----------------------------------------------------------------------------
(* Properties of the scripts                                               *)

deployFailed ==
    script.name = "deploy.sh" /\ script.pc = "exit" /\ script.status # 0

\* C26: if deploy.sh fails at any step after it started (pull, dependency
\* install, build, copy of the build output, chmod), the deployment target
\* ends up holding the version that was deployed before the script ran.
C26_FailureRollsBack ==
    (deployFailed /\ script.before.exists) => target = script.before

\* the same statement for the failures up to the check of the build output
C26_EarlyFailureKeepsTarget ==
    (deployFailed /\ script.before.exists /\ target # script.before)
        => dist.exists

rollbackEnded == script.name = "rollback.sh" /\ script.pc = "exit"

\* the choice is an integer in 1..number of backups
validChoice == \E i \in 1..Len(backups.list) : script.choice = decimal(i)

\* C27: when rollback.sh is given a valid selection, the deployment target
\* afterwards has the content of the selected backup and nothing else; when
\* the backup directory is missing, no backup exists, or the selection is not
\* an integer in 1..number of backups, the script exits with an error and the
\* deployment target is not modified.
C27_RollbackExact ==
    rollbackEnded =>
        IF backups.exists /\ validChoice
        THEN /\ script.status = 0
             /\ \E i \in 1..Len(backups.list) :
                   script.choice = decimal(i) /\ target = backups.list[i]
        ELSE /\ script.status # 0
             /\ target = script.before

\* the first half of the statement alone
C27_ValidChoiceRestores ==
    (rollbackEnded /\ backups.exists /\ validChoice)
        => /\ script.status = 0
           /\ \E i \in 1..Len(backups.list) :
                 script.choice = decimal(i) /\ target = backups.list[i]

-----------------------------------------------------------------------------
(* The page with its listener registered, loads overlapping                *)

\* how many loads are in flight together
OverlapLoads == 2

\* what another writer appends: the default A record of "a" set to "x"
ForeignSets ==
    {[name |-> trim32(bytes32Of(NAME_A)), label |-> <<>>,
      recordType |-> TYPE_A, data |-> toUtf8Bytes(VALUE_X)]}

\* The page has been opened for 'a': the listener is registered and the
\* initial loadResolverData() is still at its first await.
OverlapInit ==
    /\ impl \in {"RecordsPage", "AppOld"}
    /\ hostIdle
    /\ events = <<>>
    /\ recordMap = <<>>
    /\ ledger = <<>>
    /\ domainName = NAME_A
    /\ walletClient = TRUE
    /\ loading = TRUE
    /\ error = ""
    /\ records = <<>>
    /\ edit = EditDefault
    /\ loads = {[id |-> 1, name |-> NAME_A, pc |-> "signer", n |-> 0, by |-> 0]}
    /\ updates = {}
    /\ setups = {}
    /\ listeners = {[name |-> NAME_A, epoch |-> 1]}
    /\ inbox = {}
    /\ epoch = 1
    /\ lastDone = NoCall
    /\ staleCallback = FALSE

\* what the provider and the ledger do for the page
OverlapAnswers ==
    \/ \E m \in inbox : handleRecordChangedWithin(m, OverlapLoads)
    \/ \E t \in loads : load_queryServed(t)
    \/ \E t \in loads : load_queryResolved(t)
    \/ \E u \in updates : update_signerOk(u)
    \/ \E u \in updates : update_sendResolved(u)
    \/ \E u \in updates : tx_mined(u, "mined")
    \/ \E u \in updates : update_waitResolved(u)

\* every request to the provider is answered; other writers and the user act
OverlapNext ==
    \/ OverlapAnswers
    \/ \E e \in ForeignSets : ForeignAppend(e)
    \/ handleAddNewRecord
    \/ \E v \in PageValues : setEditValue(v)
    \/ handleSaveRecord

OverlapSpec == OverlapInit /\ [][OverlapNext]_vars

\* the page with nothing submitted: other writers append, the listener
\* reloads, the user opens and closes the new-record form
QuietNext ==
    \/ \E e \in ForeignSets : ForeignAppend(e)
    \/ \E m \in inbox : handleRecordChangedWithin(m, OverlapLoads)
    \/ \E t \in loads : load_queryServed(t)
    \/ \E t \in loads : load_queryResolved(t)
    \/ handleAddNewRecord
    \/ \E v \in PageValues : setEditValue(v)
    \/ \E t \in PageTypes : setEditType(t)
    \/ handleCancelEdit

\* The ledger is bounded, so it is quiet from some moment on; every listener
\* call is made and every started load completes.
QuietSpec ==
    /\ OverlapInit
    /\ [][QuietNext]_vars
    /\ WF_vars(\E m \in inbox : handleRecordChangedWithin(m, OverlapLoads))
    /\ WF_vars(\E t \in loads : load_queryServed(t))
    /\ WF_vars(\E t \in loads : load_queryResolved(t))

-----------------------------------------------------------------------------
(* Properties of overlapping loads                                         *)

\* C28: if from some moment on no new change event for the page's name is
\* appended and every started loadResolverData eventually completes, then
\* eventually and from then on the displayed records equal the reduction of
\* the full event log of that name, whatever the order in which overlapping
\* loads complete.
C28_NoDrift == <>[](records = upToDate)

\* the prefixes of the log of the page's name that reduce to r
prefixesShown(r) ==
    {n \in 0..Len(ledger) :
        reduced(domainName, queryFilter(nameHexOf(domainName), n)) = r}

\* C29: for a fixed name, if the displayed records at some moment are the
\* reduction of the first n events of the log, then at no later moment are
\* they the reduction of a prefix shorter than n: no step takes the records
\* from the reduction of a prefix to records that only shorter prefixes
\* reduce to.
C29_NeverBackInTime ==
    [][\A n \in prefixesShown(records) :
          (records' # records /\ prefixesShown(records)' # {})
             => \E k \in prefixesShown(records)' : k >= n]_vars

-----------------------------------------------------------------------------
(* Properties of the loading flag                                          *)

\* the call u has set loading and its setRecord / tx.wait() has not settled
submitting(u) == u \in updates /\ u.pc \in {"signer", "send", "wait"}

\* C30: from the moment updateRecord sets loading to true until its
\* setRecord / tx.wait() has settled, loading stays true, so that the Save
\* and Add buttons stay disabled; a listener-triggered or manual
\* loadResolverData that completes in the meantime does not reset it.
C30_LoadingCoversSubmission ==
    \A u \in updates : submitting(u) => loading

\* a load that returns leaves the flag alone while a submission is in flight
C30_LoadKeepsFlag ==
    [][\A t \in loads :
          (t \notin loads' /\ loading /\ \E u \in updates : submitting(u))
             => loading']_vars

\* the flag is set from the start of a call to its first answer
C30_LoadingAtStart ==
    [][\A u \in updates' : (u \notin updates /\ u.pc = "signer") => loading']_vars

=============================================================================
